---- MODULE Spec2Model ----
(***************************************************************************)
(* A model of bashlet: the session store (src/src/session/mod.rs), the CLI *)
(* commands that drive it (src/src/cli/commands.rs) and the sandbox        *)
(* backends (src/src/sandbox/backends).                                    *)
(*                                                                         *)
(* Conventions.  Option<T> is a set with at most one element: None is {}   *)
(* and Some(x) is {x}.  Result<T> is a record [kind, id, val]: kind "Ok"   *)
(* with the value in val, or the name of the BashletError variant with the *)
(* identifier it carries in id.  u64 is scaled down to WordBits bits.      *)
(***************************************************************************)
EXTENDS Integers, Sequences, FiniteSets, TLC

VARIABLES
  files,            \* <data_dir>/sessions: session id -> record stored in <id>.json
  now,              \* the wall clock, epoch seconds
  overflow_checks,  \* build profile: TRUE = u64 overflow panics, FALSE = it wraps
  procs,            \* the CLI invocations in flight, one OS process each
  cmds,             \* the number of CLI invocations started so far
  slast,            \* the SessionManager call made by the latest step
  backend,          \* the sandbox backend object of the process
  host,             \* what exists on the host: mount paths, processes, sockets
  blast,            \* the backend call made by the latest step
  shut_ok,          \* a shutdown of the backend has returned Ok
  guest,            \* the file the sandbox holds at the path under test
  flast,            \* the file call made by the latest step
  boot,             \* the MicroVM that FirecrackerBackend::new is building
  conns,            \* the connections peers have made to the guest agent
  backlog,          \* the connections the agent's listener has not accepted yet
  serving,          \* the connection the agent's accept loop is handling
  fact,             \* the build, the platform and the backend type resolved last
  elast,            \* the error whose retryability was asked last
  tlast,            \* the parse_ttl call made last
  disk,             \* the sessions directory, file by file: whole or partly written
  writers,          \* the save each writing process is in the middle of
  dlast,            \* the call on the directory made by the latest step
  gen,              \* the clock in ms, COUNTER and the ids one process has generated
  ctor,             \* FirecrackerBackend::new await by await: position, checks made, result
  socks,            \* the socket files of the MicroVM that exist
  reqs,             \* the REST requests the hypervisor has received, with its replies
  lock,             \* the tokio Mutex around the VsockClient: owner and queue
  calls,            \* the guest RPC each caller of the backend is making
  rpcs,             \* the guest RPCs issued and completed so far, in order
  wall,             \* the wall clock in milliseconds
  insts,            \* the MicroVM backends under construction or running: id, rootfs path, drive
  images,           \* the rootfs images in the cache directory: who copied into them, who writes
  cli,              \* the CLI invocation that builds a backend: its position and the calls on its backend
  recs,             \* the stored sessions: made with a preset or not, and how far their setup got
  req_dir,          \* the request files in <comm_dir>/requests, by request id
  resp_dir,         \* the response files in <comm_dir>/responses, by request id
  wrappers,         \* where the wrapper script of each request is
  tool_runs,        \* how often the proxy has run the tool for each request
  responses,        \* how often the proxy has written the response of each request
  poll,             \* the background task of start_proxy: asleep or in process_requests
  formatted         \* the format_base36 call made last

storeVars == <<files, now, overflow_checks, procs, cmds, slast>>
backendVars == <<backend, host, blast, shut_ok>>
fileVars == <<guest, flast>>
bootVars == <<boot>>
agentVars == <<conns, backlog, serving>>
callVars == <<fact, elast, tlast>>
diskVars == <<disk, writers, dlast>>
genVars == <<gen>>
wireVars == <<ctor, socks, reqs, lock, calls, rpcs>>
rootfsVars == <<wall, insts, images>>
cliVars == <<cli, recs>>
proxyVars == <<req_dir, resp_dir, wrappers, tool_runs, responses, poll>>
formatVars == <<formatted>>

vars == <<storeVars, backendVars, fileVars, bootVars, agentVars, callVars, diskVars, genVars, wireVars, rootfsVars, cliVars, proxyVars, formatVars>>

\* what the steps of one part of the program leave alone
besidesStore == <<backendVars, fileVars, bootVars, agentVars, callVars, diskVars, genVars, wireVars, rootfsVars, cliVars, proxyVars, formatVars>>
besidesBackend == <<storeVars, fileVars, bootVars, agentVars, callVars, diskVars, genVars, wireVars, rootfsVars, cliVars, proxyVars, formatVars>>
besidesFile == <<storeVars, backendVars, bootVars, agentVars, callVars, diskVars, genVars, wireVars, rootfsVars, cliVars, proxyVars, formatVars>>
besidesBoot == <<storeVars, fileVars, agentVars, callVars, diskVars, genVars, wireVars, rootfsVars, cliVars, proxyVars, formatVars>>
besidesAgent == <<storeVars, backendVars, flast, bootVars, callVars, diskVars, genVars, wireVars, rootfsVars, cliVars, proxyVars, formatVars>>
besidesCall == <<storeVars, backendVars, fileVars, bootVars, agentVars, diskVars, genVars, wireVars, rootfsVars, cliVars, proxyVars, formatVars>>
besidesDisk == <<files, overflow_checks, procs, cmds, backendVars, fileVars, bootVars, agentVars, callVars, genVars, wireVars, rootfsVars, cliVars, proxyVars, formatVars>>
besidesWire == <<storeVars, backendVars, fileVars, bootVars, agentVars, callVars, diskVars, genVars, rootfsVars, cliVars, proxyVars, formatVars>>
besidesGen == <<storeVars, backendVars, fileVars, bootVars, agentVars, callVars, diskVars, wireVars, rootfsVars, cliVars, proxyVars, formatVars>>
besidesCli == <<storeVars, backendVars, fileVars, bootVars, agentVars, callVars, diskVars, genVars, wireVars, rootfsVars, proxyVars, formatVars>>
besidesRootfs == <<storeVars, backendVars, fileVars, bootVars, agentVars, callVars, diskVars, genVars, wireVars, cliVars, proxyVars, formatVars>>
besidesFormat == <<storeVars, backendVars, fileVars, bootVars, agentVars, callVars, diskVars, genVars, wireVars, rootfsVars, cliVars, proxyVars>>
besidesProxy == <<storeVars, backendVars, fileVars, bootVars, agentVars, callVars, diskVars, genVars, wireVars, rootfsVars, cliVars, formatVars>>

----------------------------------------------------------------------------
(* Bounds of the model *)

MaxNow == 1
MaxCmds == 2
WordBits == 18

U64Mod == 2 ^ WordBits
U64Max == U64Mod - 1

Ids == {"i1", "i2"}
\* "i1" is a user-chosen name that coincides with a generated id
Names == {"n1", "i1"}
Keys == Ids \cup Names
Cfgs == {"c1"}

\* the --ttl argument after parse_ttl: absent, rejected, or a number of seconds
TtlArgs ==
  { [given |-> FALSE, valid |-> TRUE, secs |-> 0],
    [given |-> TRUE, valid |-> FALSE, secs |-> 0],
    [given |-> TRUE, valid |-> TRUE, secs |-> 0],
    [given |-> TRUE, valid |-> TRUE, secs |-> U64Max] }

----------------------------------------------------------------------------
(* Results *)

Ok(v) == [kind |-> "Ok", id |-> "", val |-> {v}]
OkUnit == [kind |-> "Ok", id |-> "", val |-> {}]
Err(k, i) == [kind |-> k, id |-> i, val |-> {}]
\* an arithmetic overflow panic: the process aborts, the call never returns
Panicked == [kind |-> "Panic", id |-> "", val |-> {}]

TheOne(S) == CHOOSE x \in S : TRUE

----------------------------------------------------------------------------
(* Session *)

\* Session::new; the id is generate_session_id()'s value
SessionNew(id, name, cfg, ttl, t) ==
  [id |-> id, name |-> name, cfg |-> cfg,
   created_at |-> t, last_activity |-> t, ttl_seconds |-> ttl]

\* Session::is_expired: "true", "false", or "panic" when last_activity + ttl
\* overflows u64 in a build with overflow checks (without them the sum wraps)
is_expired_geq(s, t) ==
  IF s.ttl_seconds = {} THEN "false"
  ELSE LET sum == s.last_activity + TheOne(s.ttl_seconds) IN
       IF sum > U64Max /\ overflow_checks THEN "panic"
       ELSE IF t >= sum % U64Mod THEN "true" ELSE "false"

is_expired(s, t) ==
  IF s.ttl_seconds = {} THEN "false"
  ELSE LET sum == s.last_activity + TheOne(s.ttl_seconds) IN
       IF sum > U64Max /\ overflow_checks THEN "panic"
       ELSE IF t > sum % U64Mod THEN "true" ELSE "false"

SessionTouch_renewing_created_at(s, t) ==
  [s EXCEPT !.last_activity = t, !.created_at = t]

\* Session::touch
SessionTouch(s, t) == [s EXCEPT !.last_activity = t]

----------------------------------------------------------------------------
(* SessionManager *)

Remove(fs, i) == [j \in (DOMAIN fs) \ {i} |-> fs[j]]

\* the orders in which read_dir may yield the files of the directory
DirOrders(fs) ==
  LET n == Cardinality(DOMAIN fs) IN
  { o \in [1..n -> DOMAIN fs] : \A a, b \in 1..n : a # b => o[a] # o[b] }

DropAt(seq, k) ==
  [j \in 1..(Len(seq) - 1) |-> IF j < k THEN seq[j] ELSE seq[j + 1]]

\* sort_by(|a, b| b.created_at.cmp(&a.created_at)): stable, newest first
RECURSIVE sort_created_desc(_)
sort_created_desc(seq) ==
  IF seq = <<>> THEN <<>>
  ELSE LET top == CHOOSE k \in 1..Len(seq) :
                    /\ \A j \in 1..Len(seq) : seq[j].created_at <= seq[k].created_at
                    /\ \A j \in 1..(k - 1) : seq[j].created_at < seq[k].created_at
       IN <<seq[top]>> \o sort_created_desc(DropAt(seq, top))

\* SessionManager::list, reading the directory in the order `order`
list(fs, order) == sort_created_desc([k \in 1..Len(order) |-> fs[order[k]]])

\* SessionManager::save
save(fs, s) == [j \in (DOMAIN fs) \cup {s.id} |-> IF j = s.id THEN s ELSE fs[j]]

NameMatches(sessions, key) ==
  { k \in 1..Len(sessions) : sessions[k].name = {key} }

Least(S) == CHOOSE k \in S : \A j \in S : k <= j

\* SessionManager::delete
delete(fs, key, order) ==
  IF key \in DOMAIN fs
  THEN [res |-> OkUnit, files |-> Remove(fs, key)]
  ELSE LET sessions == list(fs, order)
           hits == NameMatches(sessions, key)
       IN IF hits = {}
          THEN [res |-> Err("SessionNotFound", key), files |-> fs]
          ELSE [res |-> OkUnit, files |-> Remove(fs, sessions[Least(hits)].id)]

\* what get does with the record it found: `victim` is what it passes to delete
get_found(fs, session, key, victim, order, t) ==
  LET e == is_expired(session, t) IN
  IF e = "panic" THEN [res |-> Panicked, files |-> fs]
  ELSE IF e = "true"
  THEN LET d == delete(fs, victim, order) IN
       IF d.res.kind = "Ok"
       THEN [res |-> Err("SessionExpired", key), files |-> d.files]
       ELSE d
  ELSE [res |-> Ok(session), files |-> fs]

get_name_unchecked(fs, key, order, t) ==
  IF key \in DOMAIN fs
  THEN get_found(fs, fs[key], key, key, order, t)
  ELSE LET sessions == list(fs, order)
           hits == NameMatches(sessions, key)
       IN IF hits = {}
          THEN [res |-> Err("SessionNotFound", key), files |-> fs]
          ELSE [res |-> Ok(sessions[Least(hits)]), files |-> fs]

\* SessionManager::get
get(fs, key, order, t) ==
  IF key \in DOMAIN fs
  THEN get_found(fs, fs[key], key, key, order, t)
  ELSE LET sessions == list(fs, order)
           hits == NameMatches(sessions, key)
       IN IF hits = {}
          THEN [res |-> Err("SessionNotFound", key), files |-> fs]
          ELSE LET session == sessions[Least(hits)] IN
               get_found(fs, session, key, session.id, order, t)

\* the loop of SessionManager::cleanup_expired over the listing
RECURSIVE cleanup_loop(_, _, _, _, _)
cleanup_loop(fs, sessions, cleaned, order, t) ==
  IF sessions = <<>> THEN [res |-> Ok(cleaned), files |-> fs]
  ELSE LET session == Head(sessions)
           e == is_expired(session, t)
       IN IF e = "panic" THEN [res |-> Panicked, files |-> fs]
          ELSE IF e = "true"
          THEN LET d == delete(fs, session.id, order) IN
               cleanup_loop(d.files, Tail(sessions),
                            IF d.res.kind = "Ok" THEN cleaned + 1 ELSE cleaned,
                            order, t)
          ELSE cleanup_loop(fs, Tail(sessions), cleaned, order, t)

\* SessionManager::cleanup_expired
cleanup_expired(fs, order, t) == cleanup_loop(fs, list(fs, order), 0, order, t)

----------------------------------------------------------------------------
(* The CLI commands, one OS process per invocation.  Every SessionManager  *)
(* call is one step; the steps of concurrent invocations interleave.  The  *)
(* backend a command builds and the commands it runs in it do not touch    *)
(* the store: their outcome is an input of the step that follows them.     *)

Idle == [pc |-> "idle", key |-> "", held |-> {}]

\* what the latest step did: the manager call `op` with argument `key`, its
\* result `res`, and the error `out` with which the command ended in this
\* step ("" when it goes on or succeeded)
Did(op, key, res, out) == [op |-> op, key |-> key, res |-> res, out |-> out]

\* processes are interchangeable: a new invocation takes the first idle one
MayStart(p) ==
  /\ procs[p].pc = "idle"
  /\ \A q \in DOMAIN procs : procs[q].pc = "idle" => p <= q

\* a new invocation starts; where invocations may overlap, MaxCmds bounds
\* how many a run starts
Starting(p) ==
  /\ MayStart(p)
  /\ IF Cardinality(DOMAIN procs) > 1
     THEN cmds < MaxCmds /\ cmds' = cmds + 1
     ELSE cmds' = cmds

\* an empty sessions directory and `width` invocations that may overlap
StoreInit(width) ==
  /\ files = << >>
  /\ now = 0
  /\ overflow_checks \in BOOLEAN
  /\ procs = [p \in 1..width |-> Idle]
  /\ cmds = 0
  /\ slast = Did("init", "", OkUnit, "")

\* the clock advances
Tick ==
  /\ now < MaxNow
  /\ now' = now + 1
  /\ slast' = Did("tick", "", OkUnit, "")
  /\ UNCHANGED <<files, overflow_checks, procs, cmds>>
  /\ UNCHANGED besidesStore

\* create, lines 94-168: the name check, parse_ttl, Session::new, then
\* create_backend and the setup commands
CreateCheck(p, name) ==
  /\ Starting(p)
  /\ \E order \in DirOrders(files) :
       LET g == IF name = {} THEN [res |-> OkUnit, files |-> files]
                ELSE get(files, TheOne(name), order, now)
           key == IF name = {} THEN "" ELSE TheOne(name)
           op == IF name = {} THEN "create_new" ELSE "create_get"
           early == IF name # {} /\ g.res.kind = "Ok" THEN "SessionNameExists"
                    ELSE IF name # {} /\ g.res.kind = "Panic" THEN "Panic"
                    ELSE ""
       IN /\ files' = g.files
          /\ \/ /\ early # ""
                /\ procs' = [procs EXCEPT ![p] = Idle]
                /\ slast' = Did(op, key, g.res, early)
             \/ /\ early = ""
                \* parse_ttl rejects the argument, or the backend or a setup
                \* command fails
                /\ \E out \in {"Config", "SandboxInit"} :
                     /\ procs' = [procs EXCEPT ![p] = Idle]
                     /\ slast' = Did(op, key, g.res, out)
             \/ /\ early = ""
                /\ \E ttl \in TtlArgs, cfg \in Cfgs, id \in Ids :
                     /\ ttl.valid
                     /\ procs' = [procs EXCEPT ![p] =
                          [pc |-> "create_save", key |-> key,
                           held |-> {SessionNew(id, name, cfg,
                                        IF ttl.given THEN {ttl.secs} ELSE {}, now)}]]
                     /\ slast' = Did(op, key, g.res, "")
  /\ UNCHANGED <<now, overflow_checks>>
  /\ UNCHANGED besidesStore

\* create, lines 170-173: manager.save(&session)
CreateSave(p) ==
  /\ procs[p].pc = "create_save"
  /\ files' = save(files, TheOne(procs[p].held))
  /\ procs' = [procs EXCEPT ![p] = Idle]
  /\ slast' = Did("save", "", OkUnit, "")
  /\ UNCHANGED <<now, overflow_checks, cmds>>
  /\ UNCHANGED besidesStore

\* run, lines 204-245: manager.get(&args.session) and, for --create on
\* SessionNotFound, parse_ttl and Session::new(Some(args.session))
RunGet(p, key, create) ==
  /\ Starting(p)
  /\ \E order \in DirOrders(files) :
       LET g == get(files, key, order, now)
           making == g.res.kind = "SessionNotFound" /\ create
       IN /\ files' = g.files
          /\ \/ /\ g.res.kind = "Ok"
                /\ procs' = [procs EXCEPT ![p] =
                               [pc |-> "touch_get", key |-> key, held |-> {}]]
                /\ slast' = Did("run_get", key, g.res, "")
             \/ /\ g.res.kind # "Ok" /\ ~making
                /\ procs' = [procs EXCEPT ![p] = Idle]
                /\ slast' = Did("run_get", key, g.res, g.res.kind)
             \/ /\ making
                /\ procs' = [procs EXCEPT ![p] = Idle]
                /\ slast' = Did("run_get", key, g.res, "Config")
             \/ /\ making
                /\ \E ttl \in TtlArgs, cfg \in Cfgs, id \in Ids :
                     /\ ttl.valid
                     /\ procs' = [procs EXCEPT ![p] =
                          [pc |-> "run_save", key |-> key,
                           held |-> {SessionNew(id, {key}, cfg,
                                        IF ttl.given THEN {ttl.secs} ELSE {}, now)}]]
                     /\ slast' = Did("run_get", key, g.res, "")
  /\ UNCHANGED <<now, overflow_checks>>
  /\ UNCHANGED besidesStore

\* run, line 246: manager.save(&session) of the session made by --create
RunSave(p) ==
  /\ procs[p].pc = "run_save"
  /\ files' = save(files, TheOne(procs[p].held))
  /\ procs' = [procs EXCEPT ![p] = [@ EXCEPT !.pc = "touch_get", !.held = {}]]
  /\ slast' = Did("save", "", OkUnit, "")
  /\ UNCHANGED <<now, overflow_checks, cmds>>
  /\ UNCHANGED besidesStore

\* run, line 252, first half of SessionManager::touch: get, then Session::touch
TouchGet(p) ==
  /\ procs[p].pc = "touch_get"
  /\ \E order \in DirOrders(files) :
       LET g == get(files, procs[p].key, order, now) IN
       /\ files' = g.files
       /\ procs' = [procs EXCEPT ![p] =
                      IF g.res.kind = "Ok"
                      THEN [@ EXCEPT !.pc = "touch_save",
                                     !.held = {SessionTouch(TheOne(g.res.val), now)}]
                      ELSE Idle]
       /\ slast' = Did("touch_get", procs[p].key, g.res,
                       IF g.res.kind = "Ok" THEN "" ELSE g.res.kind)
  /\ UNCHANGED <<now, overflow_checks, cmds>>
  /\ UNCHANGED besidesStore

\* second half of SessionManager::touch: save; then run, lines 254-286:
\* create_backend, the setup commands and the command, none of which
\* touches the store
TouchSave(p) ==
  /\ procs[p].pc = "touch_save"
  /\ files' = save(files, TheOne(procs[p].held))
  /\ procs' = [procs EXCEPT ![p] = Idle]
  /\ slast' = Did("save", "", OkUnit, "")
  /\ UNCHANGED <<now, overflow_checks, cmds>>
  /\ UNCHANGED besidesStore

\* terminate: manager.delete(&args.session)
Terminate(p, key) ==
  /\ Starting(p)
  /\ \E order \in DirOrders(files) :
       LET d == delete(files, key, order) IN
       /\ files' = d.files
       /\ slast' = Did("delete", key, d.res,
                       IF d.res.kind = "Ok" THEN "" ELSE d.res.kind)
  /\ UNCHANGED <<now, overflow_checks, procs>>
  /\ UNCHANGED besidesStore

\* list: cleanup_expired unless --all, then manager.list(); printing a row
\* evaluates is_expired on it
ListCmd(p, all) ==
  /\ Starting(p)
  /\ \E order \in DirOrders(files) :
       LET c == IF all THEN [res |-> Ok(0), files |-> files]
                ELSE cleanup_expired(files, order, now)
       IN \E order2 \in DirOrders(c.files) :
            LET sessions == list(c.files, order2)
                panics == c.res.kind = "Panic"
                          \/ \E k \in 1..Len(sessions) :
                               is_expired(sessions[k], now) = "panic"
            IN /\ files' = c.files
               /\ slast' = Did("list", "",
                               IF c.res.kind = "Panic" THEN Panicked ELSE OkUnit,
                               IF panics THEN "Panic" ELSE "")
  /\ UNCHANGED <<now, overflow_checks, procs>>
  /\ UNCHANGED besidesStore

StoreNext ==
  \/ Tick
  \/ \E p \in DOMAIN procs, name \in {{}} \cup {{n} : n \in Names} : CreateCheck(p, name)
  \/ \E p \in DOMAIN procs : CreateSave(p)
  \/ \E p \in DOMAIN procs, key \in Keys, create \in BOOLEAN : RunGet(p, key, create)
  \/ \E p \in DOMAIN procs : RunSave(p)
  \/ \E p \in DOMAIN procs : TouchGet(p)
  \/ \E p \in DOMAIN procs : TouchSave(p)
  \/ \E p \in DOMAIN procs, key \in Keys : Terminate(p, key)
  \/ \E p \in DOMAIN procs, all \in BOOLEAN : ListCmd(p, all)

----------------------------------------------------------------------------
(* Sandbox backends: what an external process does is the environment's    *)
(* answer, an input of the step; what the backend makes of it is the code. *)

MountPaths == {"m1", "m2"}
\* the `mounts` a backend may be configured with, by host_path
MountLists == {<<>>, <<"m1">>, <<"m2">>, <<"m1", "m2">>, <<"m2", "m1">>}
ExitCodes == {0, 1, 137}
\* what a command may print on stdout, character by character
Stdouts ==
  { <<>>,
    <<"o", "k", "\n">>,
    <<"m", "o", "t", "d", "\n", "o", "k", "\n">>,
    <<"n", "o", "\n">> }
\* what may exist on the host besides the mount paths
Resources == {"container", "master", "control_sock", "vm", "api_sock", "vsock_sock"}

\* the environment's answer to running one external process: it cannot be
\* spawned, or it runs and ends with an exit status (code = {c}) or without
\* one (code = {}, killed by a signal)
Outcomes ==
  {[link |-> TRUE, spawned |-> FALSE, code |-> {}, stdout |-> <<>>]}
  \cup {[link |-> TRUE, spawned |-> TRUE, code |-> c, stdout |-> s] :
          c \in {{}} \cup {{x} : x \in ExitCodes}, s \in Stdouts}

\* the vsock socket cannot be connected, written or read
NoLink == [link |-> FALSE, spawned |-> FALSE, code |-> {}, stdout |-> <<>>]

\* how a spawn whose output and exit code are dropped may end
Spawns == {"nospawn", "success", "failure"}

CommandResult(code, stdout) == [exit_code |-> code, stdout |-> stdout]

\* Option::unwrap_or
unwrap_or(opt, d) == IF opt = {} THEN d ELSE TheOne(opt)

\* the fields of the backend structs that the model follows; `mode` is
\* DockerBackend.session_mode or SshBackend.use_control_master
Backend(kind, mode, mounts) ==
  [kind |-> kind, mode |-> mode, mounts |-> mounts,
   container_id |-> {}, control_path |-> {}, connected |-> FALSE,
   started |-> FALSE]

NoBackend == Backend("none", FALSE, <<>>)

\* a backend call: its result and the external actions it issued, in order
Ran(res, acts) == [res |-> res, acts |-> acts]

\* the same for a call that changes the backend or the host
Ran2(res, acts, b, h) == [res |-> res, acts |-> acts, backend |-> b, host |-> h]

Gain(h, rs) == [h EXCEPT !.live = @ \cup rs]
Lose(h, rs) == [h EXCEPT !.live = @ \ rs]

\* the mounts whose host_path does not exist
Missing(mounts, paths) == { k \in 1..Len(mounts) : mounts[k] \notin paths }

Greatest(S) == CHOOSE k \in S : \A j \in S : j <= k

last_missing(mounts, paths) == mounts[Greatest(Missing(mounts, paths))]

\* the mount at which `for mount in &self.mounts { if !mount.host_path.exists()
\* { return Err(MountPathNotFound ..) } .. }` returns
first_missing(mounts, paths) == mounts[Least(Missing(mounts, paths))]

run_output_strict(verb, out) ==
  IF ~out.spawned \/ out.code # {0}
  THEN Ran(Err("SandboxExecution", ""), <<verb>>)
  ELSE Ran(Ok(CommandResult(0, out.stdout)), <<verb>>)

\* cmd.output().await.map_err(SandboxExecution)?, then
\* exit_code = output.status.code().unwrap_or(1)
run_output(verb, out) ==
  IF ~out.spawned
  THEN Ran(Err("SandboxExecution", ""), <<verb>>)
  ELSE Ran(Ok(CommandResult(unwrap_or(out.code, 1), out.stdout)), <<verb>>)

\* WasmerBackend::execute
wasmer_execute(b, h, out) ==
  IF Missing(b.mounts, h.paths) # {}
  THEN Ran(Err("MountPathNotFound", first_missing(b.mounts, h.paths)), <<>>)
  ELSE run_output("wasmer run", out)

\* DockerBackend::execute_in_session
execute_in_session(b, h, out) == run_output("docker exec", out)

\* DockerBackend::execute_stateless
execute_stateless(b, h, out) ==
  IF Missing(b.mounts, h.paths) # {}
  THEN Ran(Err("MountPathNotFound", first_missing(b.mounts, h.paths)), <<>>)
  ELSE run_output("docker run --rm", out)

docker_execute_by_mode(b, h, out) ==
  IF b.mode
  THEN execute_in_session(b, h, out)
  ELSE execute_stateless(b, h, out)

\* DockerBackend::execute
docker_execute(b, h, out) ==
  IF b.container_id # {}
  THEN execute_in_session(b, h, out)
  ELSE execute_stateless(b, h, out)

\* SshBackend::execute_ssh
execute_ssh(b, h, out) == run_output("ssh", out)

\* the guest agent's execute_command: the Response it sends
execute_command(out) ==
  IF ~out.spawned
  THEN [type |-> "error", exit_code |-> 0, stdout |-> <<>>]
  ELSE [type |-> "execute", exit_code |-> unwrap_or(out.code, -1),
        stdout |-> out.stdout]

\* VsockClient::execute: send_request, then the match on the response
vsock_execute(b, h, out) ==
  IF ~out.link
  THEN Ran(Err("VMCommunication", ""), <<"connect">>)
  ELSE LET response == execute_command(out) IN
       IF response.type = "execute"
       THEN Ran(Ok(CommandResult(response.exit_code, response.stdout)), <<"connect">>)
       ELSE Ran(Err("SandboxExecution", ""), <<"connect">>)

\* SandboxBackend::execute, by implementation
execute(b, h, out) ==
  CASE b.kind = "wasmer" -> wasmer_execute(b, h, out)
    [] b.kind = "docker" -> docker_execute(b, h, out)
    [] b.kind = "ssh" -> execute_ssh(b, h, out)
    [] b.kind = "firecracker" -> vsock_execute(b, h, out)

\* the function that runs the command
execute_op(b) ==
  CASE b.kind = "wasmer" -> "WasmerBackend::execute"
    [] b.kind = "docker" /\ b.container_id # {} -> "DockerBackend::execute_in_session"
    [] b.kind = "docker" /\ b.container_id = {} -> "DockerBackend::execute_stateless"
    [] b.kind = "ssh" -> "SshBackend::execute_ssh"
    [] b.kind = "firecracker" -> "VsockClient::execute"

IsSpace(c) == c \in {" ", "\n", "\t", "\r"}

RECURSIVE trim_start(_)
trim_start(s) ==
  IF s # <<>> /\ IsSpace(Head(s)) THEN trim_start(Tail(s)) ELSE s

RECURSIVE trim_end(_)
trim_end(s) ==
  IF s # <<>> /\ IsSpace(s[Len(s)]) THEN trim_end(SubSeq(s, 1, Len(s) - 1)) ELSE s

\* str::trim
trim(s) == trim_end(trim_start(s))

\* SandboxBackend::health_check, the default, on the result of execute("echo ok")
default_health_check(e) ==
  Ok(e.res.kind = "Ok" /\ \A r \in e.res.val : r.exit_code = 0)

\* SshBackend::health_check
ssh_health_check(e) ==
  Ok(/\ e.res.kind = "Ok"
     /\ \A r \in e.res.val : r.exit_code = 0 /\ trim(r.stdout) = <<"o", "k">>)

\* health_check, by implementation
health_check(b, e) ==
  IF b.kind = "ssh" THEN ssh_health_check(e) ELSE default_health_check(e)

\* DockerBackend::stop_container: docker stop, then docker rm -f
stop_container(h, stop, rm) ==
  IF stop = "nospawn"
  THEN [res |-> Err("SandboxExecution", ""), acts |-> <<"docker stop">>, host |-> h]
  ELSE IF rm = "nospawn"
  THEN [res |-> Err("SandboxExecution", ""),
        acts |-> <<"docker stop", "docker rm -f">>, host |-> h]
  ELSE [res |-> OkUnit, acts |-> <<"docker stop", "docker rm -f">>,
        host |-> IF rm = "success" THEN Lose(h, {"container"}) ELSE h]

\* DockerBackend::shutdown
docker_shutdown(b, h, stop, rm) ==
  IF b.container_id = {}
  THEN Ran2(OkUnit, <<>>, b, h)
  ELSE LET s == stop_container(h, stop, rm) IN
       IF s.res.kind # "Ok"
       THEN Ran2(s.res, s.acts, b, s.host)
       ELSE Ran2(OkUnit, s.acts, [b EXCEPT !.container_id = {}], s.host)

\* SshBackend::close_control_master: ssh -O exit, which takes the master and
\* its socket down when it succeeds, then remove_file if the socket exists
close_control_master(b, h, exit, unlink) ==
  IF b.control_path = {}
  THEN Ran2(OkUnit, <<>>, b, h)
  ELSE IF exit = "nospawn"
  THEN Ran2(Err("SandboxExecution", ""), <<"ssh -O exit">>, b, h)
  ELSE LET h1 == IF exit = "success" THEN Lose(h, {"master", "control_sock"}) ELSE h
           exists == "control_sock" \in h1.live
           h2 == IF exists /\ unlink = "success" THEN Lose(h1, {"control_sock"}) ELSE h1
       IN Ran2(OkUnit,
               <<"ssh -O exit">> \o (IF exists THEN <<"unlink control_path">> ELSE <<>>),
               [b EXCEPT !.control_path = {}, !.connected = FALSE], h2)

\* SshBackend::shutdown
ssh_shutdown(b, h, exit, unlink) ==
  IF b.mode THEN close_control_master(b, h, exit, unlink) ELSE Ran2(OkUnit, <<>>, b, h)

vm_shutdown_stays_started(b, h) ==
  Ran2(OkUnit,
       (IF b.started THEN <<"SendCtrlAltDel">> ELSE <<>>)
         \o <<"kill", "unlink socket_path", "unlink vsock_path">>,
       b,
       Lose(h, {"vm", "api_sock", "vsock_sock"}))

\* FirecrackerBackend::shutdown, that is FirecrackerVM::shutdown
vm_shutdown(b, h) ==
  Ran2(OkUnit,
       (IF b.started THEN <<"SendCtrlAltDel">> ELSE <<>>)
         \o <<"kill", "unlink socket_path", "unlink vsock_path">>,
       [b EXCEPT !.started = FALSE],
       Lose(h, {"vm", "api_sock", "vsock_sock"}))

\* SandboxBackend::shutdown, by implementation; the trait's default is Ok(())
shutdown(b, h, s1, s2) ==
  CASE b.kind = "wasmer" -> Ran2(OkUnit, <<>>, b, h)
    [] b.kind = "docker" -> docker_shutdown(b, h, s1, s2)
    [] b.kind = "ssh" -> ssh_shutdown(b, h, s1, s2)
    [] b.kind = "firecracker" -> vm_shutdown(b, h)

\* SandboxBackend::info, by implementation: the backend type and `running`
info(b) ==
  [backend_type |-> b.kind,
   running |-> CASE b.kind = "wasmer" -> TRUE
                 [] b.kind = "docker" -> ~b.mode \/ b.container_id # {}
                 [] b.kind = "ssh" -> b.connected
                 [] b.kind = "firecracker" -> TRUE]

\* DockerBackend::start_session
start_session(b, h, out) ==
  IF Missing(b.mounts, h.paths) # {}
  THEN Ran2(Err("MountPathNotFound", first_missing(b.mounts, h.paths)), <<>>, b, h)
  ELSE IF ~out.spawned \/ out.code # {0}
  THEN Ran2(Err("SandboxInit", ""), <<"docker run -d">>, b, h)
  ELSE Ran2(OkUnit, <<"docker run -d">>,
            [b EXCEPT !.container_id = {"cid"}], Gain(h, {"container"}))

\* SshBackend::start_control_master
start_control_master(b, h, out) ==
  IF ~out.spawned \/ out.code # {0}
  THEN Ran2(Err("SandboxInit", ""), <<"ssh -M">>, b, h)
  ELSE Ran2(OkUnit, <<"ssh -M">>,
            [b EXCEPT !.control_path = {"ctl"}, !.connected = TRUE],
            Gain(h, {"master", "control_sock"}))

\* SshBackend::test_connection
test_connection(b, h, out) ==
  LET e == execute_ssh(b, h, out) IN
  IF e.res.kind # "Ok" THEN Ran2(e.res, e.acts, b, h)
  ELSE IF TheOne(e.res.val).exit_code # 0
  THEN Ran2(Err("SandboxInit", ""), e.acts, b, h)
  ELSE Ran2(OkUnit, e.acts, [b EXCEPT !.connected = TRUE], h)

\* FirecrackerBackend::new: FirecrackerVM::spawn, configure, start, then
\* VsockClient::connect; a VM that fails on the way is dropped
firecracker_new(b, h, out) ==
  IF ~out.spawned
  THEN Ran2(Err("VMBootFailed", ""), <<"firecracker">>, b, h)
  ELSE IF out.code # {0}
  THEN Ran2(Err("VMCommunication", ""), <<"firecracker">>, b, h)
  ELSE Ran2(OkUnit, <<"firecracker">>, [b EXCEPT !.started = TRUE],
            Gain(h, {"vm", "api_sock", "vsock_sock"}))

\* the constructors: what they do once the configuration and the tools they
\* need have been found
new(b, h, out) ==
  CASE b.kind = "wasmer" -> Ran2(OkUnit, <<>>, b, h)
    [] b.kind = "docker" /\ b.mode -> start_session(b, h, out)
    [] b.kind = "docker" /\ ~b.mode -> Ran2(OkUnit, <<>>, b, h)
    [] b.kind = "ssh" /\ b.mode -> start_control_master(b, h, out)
    [] b.kind = "ssh" /\ ~b.mode -> test_connection(b, h, out)
    [] b.kind = "firecracker" -> firecracker_new(b, h, out)

new_op(b) ==
  CASE b.kind = "wasmer" -> "WasmerBackend::new"
    [] b.kind = "docker" /\ b.mode -> "DockerBackend::start_session"
    [] b.kind = "docker" /\ ~b.mode -> "DockerBackend::new"
    [] b.kind = "ssh" /\ b.mode -> "SshBackend::start_control_master"
    [] b.kind = "ssh" /\ ~b.mode -> "SshBackend::test_connection"
    [] b.kind = "firecracker" -> "FirecrackerBackend::new"

\* the configurations with which a backend may be built
BackendConfigs ==
  {Backend("wasmer", FALSE, m) : m \in MountLists}
  \cup {Backend("docker", md, m) : md \in BOOLEAN, m \in MountLists}
  \cup {Backend("ssh", md, <<>>) : md \in BOOLEAN}
  \cup {Backend("firecracker", FALSE, <<>>)}

\* what the latest step did: the function `op` that ran, on a backend with
\* the mount list `mounts`, the environment's answer `out`, the result
\* `exec` of the execute call inside it, its own result `res`, and the
\* external actions `acts` it issued
Call(op, mounts, out, exec, res, acts) ==
  [op |-> op, mounts |-> mounts, out |-> out, exec |-> exec, res |-> res,
   acts |-> acts]

NoCall == Call("none", <<>>, NoLink, OkUnit, OkUnit, <<>>)

\* the answers the environment can give to a command run on backend b: the
\* guest agent answers only while the VM and its vsock socket are there
Answers(b, h) ==
  IF b.kind = "firecracker"
  THEN {NoLink} \cup (IF {"vm", "vsock_sock"} \subseteq h.live THEN Outcomes ELSE {})
  ELSE Outcomes

\* a backend is built: create_backend calls the constructor
BackendNew(b, out) ==
  /\ backend.kind = "none"
  /\ LET r == new(b, host, out) IN
     /\ backend' = IF r.res.kind = "Ok" THEN r.backend ELSE NoBackend
     /\ host' = r.host
     /\ blast' = Call(new_op(b), b.mounts, out, OkUnit, r.res, r.acts)
  /\ shut_ok' = FALSE
  /\ UNCHANGED besidesBackend

\* backend.execute(command)
Execute(out) ==
  /\ backend.kind # "none"
  /\ out \in Answers(backend, host)
  /\ LET e == execute(backend, host, out) IN
     blast' = Call(execute_op(backend), backend.mounts, out, e.res, e.res, e.acts)
  /\ UNCHANGED <<backend, host, shut_ok>>
  /\ UNCHANGED besidesBackend

\* backend.health_check()
HealthCheck(out) ==
  /\ backend.kind # "none"
  /\ out \in Answers(backend, host)
  /\ LET e == execute(backend, host, out) IN
     blast' = Call("health_check", backend.mounts, out, e.res,
                   health_check(backend, e), e.acts)
  /\ UNCHANGED <<backend, host, shut_ok>>
  /\ UNCHANGED besidesBackend

\* backend.shutdown()
Shutdown(s1, s2) ==
  /\ backend.kind # "none"
  /\ LET r == shutdown(backend, host, s1, s2) IN
     /\ backend' = r.backend
     /\ host' = r.host
     /\ blast' = Call("shutdown", backend.mounts, NoLink, OkUnit, r.res, r.acts)
     /\ shut_ok' = (shut_ok \/ r.res.kind = "Ok")
  /\ UNCHANGED besidesBackend

\* somebody creates or removes a directory that a mount names
MountPathChange(m) ==
  /\ host' = [host EXCEPT !.paths = IF m \in @ THEN @ \ {m} ELSE @ \cup {m}]
  /\ blast' = NoCall
  /\ UNCHANGED <<backend, shut_ok>>
  /\ UNCHANGED besidesBackend

BackendNext ==
  \/ \E b \in BackendConfigs, out \in Outcomes : BackendNew(b, out)
  \/ \E out \in Outcomes \cup {NoLink} : Execute(out)
  \/ \E out \in Outcomes \cup {NoLink} : HealthCheck(out)
  \/ \E s1, s2 \in Spawns : Shutdown(s1, s2)
  \/ \E m \in MountPaths : MountPathChange(m)

----------------------------------------------------------------------------
(* Files in the sandbox.  A text is a sequence of characters.  The shell   *)
(* that runs the command of write_file and read_file, and printf and cat   *)
(* in it, are the environment; they follow POSIX.                          *)

MaxLen == 2

\* the characters of which the contents under test are made
Alphabet == {"'", "\\", "\n", "n", "\""}
Contents == UNION {[1..n -> Alphabet] : n \in 0..MaxLen}

\* the path under test
FilePath == <<"f">>

\* str::replace of a character by a text
RECURSIVE replace(_, _, _)
replace(s, c, r) ==
  IF s = <<>> THEN <<>>
  ELSE (IF Head(s) = c THEN r ELSE <<Head(s)>>) \o replace(Tail(s), c, r)

\* content.replace('\\', "\\\\").replace('\'', "'\"'\"'")
escape(content) ==
  replace(replace(content, "\\", <<"\\", "\\">>), "'", <<"'", "\"", "'", "\"", "'">>)

\* format!("printf '%s' '{}' > '{}'", escaped, path)
write_command(content, path) ==
  <<"p", "r", "i", "n", "t", "f", " ", "'", "%", "s", "'", " ", "'">>
    \o escape(content) \o <<"'", " ", ">", " ", "'">> \o path \o <<"'">>

\* format!("cat '{}'", path)
read_command(path) == <<"c", "a", "t", " ", "'">> \o path \o <<"'">>

Word(text) == [op |-> FALSE, text |-> text]
Operator(text) == [op |-> TRUE, text |-> text]

Flush(toks, cur, open) == IF open THEN Append(toks, Word(cur)) ELSE toks

\* sh splits a command line into words, removing the quoting: inside '..'
\* every character is literal; inside ".." a backslash quotes \ " and $;
\* outside quotes a backslash quotes the next character.  `open` says that
\* a word has begun.  ok is FALSE when a quote is left open.
RECURSIVE sh_words(_, _, _, _, _)
sh_words(rest, mode, cur, open, toks) ==
  IF rest = <<>>
  THEN [ok |-> mode = "plain", toks |-> Flush(toks, cur, open)]
  ELSE
    LET c == Head(rest)
        more == Tail(rest)
    IN
    IF mode = "single"
    THEN IF c = "'" THEN sh_words(more, "plain", cur, TRUE, toks)
         ELSE sh_words(more, "single", Append(cur, c), TRUE, toks)
    ELSE IF mode = "double"
    THEN IF c = "\"" THEN sh_words(more, "plain", cur, TRUE, toks)
         ELSE IF c = "\\" /\ more # <<>> /\ Head(more) \in {"\\", "\"", "$"}
         THEN sh_words(Tail(more), "double", Append(cur, Head(more)), TRUE, toks)
         ELSE IF c = "\\" /\ more # <<>> /\ Head(more) = "\n"
         THEN sh_words(Tail(more), "double", cur, TRUE, toks)
         ELSE sh_words(more, "double", Append(cur, c), TRUE, toks)
    ELSE IF c = "'" THEN sh_words(more, "single", cur, TRUE, toks)
    ELSE IF c = "\"" THEN sh_words(more, "double", cur, TRUE, toks)
    ELSE IF c = "\\" /\ more # <<>> /\ Head(more) = "\n"
    THEN sh_words(Tail(more), "plain", cur, open, toks)
    ELSE IF c = "\\" /\ more # <<>>
    THEN sh_words(Tail(more), "plain", Append(cur, Head(more)), TRUE, toks)
    ELSE IF c \in {" ", "\t"}
    THEN sh_words(more, "plain", <<>>, FALSE, Flush(toks, cur, open))
    ELSE IF c \in {">", ";", "\n"}
    THEN sh_words(more, "plain", <<>>, FALSE,
                  Append(Flush(toks, cur, open), Operator(<<c>>)))
    ELSE sh_words(more, "plain", Append(cur, c), TRUE, toks)

\* the command that sh runs from the words t in a sandbox whose file at
\* FilePath is g: the exit code, the standard output and the file
\* afterwards.  printf '%s' ARG writes ARG as it is; cat writes the file as
\* it is.
sh_exec(ok, t, g) ==
  IF ~ok THEN [code |-> 2, stdout |-> <<>>, guest |-> g]
  ELSE IF /\ Len(t) = 5
          /\ t[1] = Word(<<"p", "r", "i", "n", "t", "f">>)
          /\ t[2] = Word(<<"%", "s">>)
          /\ ~t[3].op
          /\ t[4] = Operator(<<">">>)
          /\ t[5] = Word(FilePath)
  THEN [code |-> 0, stdout |-> <<>>, guest |-> {t[3].text}]
  ELSE IF Len(t) = 2 /\ t[1] = Word(<<"c", "a", "t">>) /\ t[2] = Word(FilePath)
  THEN IF g = {} THEN [code |-> 1, stdout |-> <<>>, guest |-> g]
       ELSE [code |-> 0, stdout |-> TheOne(g), guest |-> g]
  ELSE [code |-> 127, stdout |-> <<>>, guest |-> g]

\* sh -c cmd
sh_run(cmd, g) ==
  LET p == sh_words(cmd, "plain", <<>>, FALSE, <<>>) IN sh_exec(p.ok, p.toks, g)

\* the environment's answer when the sandbox runs a command with the effect
\* r, or when the process that would run it cannot be spawned
Answer(r, up) ==
  IF up
  THEN [link |-> TRUE, spawned |-> TRUE, code |-> {r.code}, stdout |-> r.stdout]
  ELSE [link |-> TRUE, spawned |-> FALSE, code |-> {}, stdout |-> <<>>]

\* a file call: its result and the file afterwards
Filed(res, g) == [res |-> res, guest |-> g]

\* what write_file and read_file make of the result of execute
file_result(result, value, after) ==
  IF result.res.kind # "Ok" THEN Filed(result.res, after)
  ELSE IF TheOne(result.res.val).exit_code # 0
  THEN Filed(Err("SandboxExecution", ""), after)
  ELSE Filed(IF value THEN Ok(TheOne(result.res.val).stdout) ELSE OkUnit, after)

\* the file call that runs the command whose effect in the sandbox is r
shell_file_call(b, h, g, r, value, up) ==
  file_result(execute(b, h, Answer(r, up)), value, IF up THEN r.guest ELSE g)

\* write_file of DockerBackend, SshBackend and WasmerBackend
shell_write_file(b, h, g, content, up) ==
  shell_file_call(b, h, g, sh_run(write_command(content, FilePath), g), FALSE, up)

\* read_file of DockerBackend, SshBackend and WasmerBackend
shell_read_file(b, h, g, up) ==
  shell_file_call(b, h, g, sh_run(read_command(FilePath), g), TRUE, up)

\* serde_json's escaping of the characters of a string
json_escape(s) ==
  replace(replace(replace(s, "\\", <<"\\", "\\">>), "\"", <<"\\", "\"">>),
          "\n", <<"\\", "n">>)

\* a string as serde_json::to_string writes it
json_string(s) == <<"\"">> \o json_escape(s) \o <<"\"">>

\* the inside of a JSON string read back; {} when it is not valid
RECURSIVE json_unescape(_)
json_unescape(s) ==
  IF s = <<>> THEN {<<>>}
  ELSE IF Head(s) \in {"\"", "\n"} THEN {}
  ELSE IF Head(s) = "\\"
  THEN IF Len(s) < 2 THEN {}
       ELSE LET c == s[2]
                d == IF c = "n" THEN {"\n"}
                     ELSE IF c \in {"\\", "\""} THEN {c}
                     ELSE {}
                rest == json_unescape(SubSeq(s, 3, Len(s)))
            IN {<<x>> \o r : x \in d, r \in rest}
  ELSE {<<Head(s)>> \o r : r \in json_unescape(Tail(s))}

\* serde_json::from_str of a string
json_parse_string(s) ==
  IF Len(s) >= 2 /\ s[1] = "\"" /\ s[Len(s)] = "\""
  THEN json_unescape(SubSeq(s, 2, Len(s) - 1))
  ELSE {}

\* BufRead::read_line: up to and with the first newline
RECURSIVE read_line(_)
read_line(s) ==
  IF s = <<>> THEN <<>>
  ELSE IF Head(s) = "\n" THEN <<"\n">>
  ELSE <<Head(s)>> \o read_line(Tail(s))

\* a message on the wire: its type, then its string field as JSON text;
\* send_request and the agent write a newline after it
Frame(type, text) == <<type>> \o text \o <<"\n">>

\* format!("Invalid request: {}", e), up to the colon
InvalidRequest ==
  <<"I", "n", "v", "a", "l", "i", "d", " ", "r", "e", "q", "u", "e", "s", "t">>

\* format!("Failed to read file: {}", e), up to the colon
FailedToRead ==
  <<"F", "a", "i", "l", "e", "d", " ", "t", "o", " ", "r", "e", "a", "d">>

\* an `error` response with its message
ErrorFrame(message) == Frame("e", json_string(message))

\* the guest agent: handle_connection reads a line, process_request parses
\* request_line.trim() and runs write_file or read_file or answers a ping;
\* the frame it answers with and the file afterwards
process_request(frame, g) ==
  LET line == trim(read_line(frame)) IN
  IF line = <<>> THEN [frame |-> ErrorFrame(InvalidRequest), guest |-> g]
  ELSE IF Head(line) = "W"
  THEN LET content == json_parse_string(Tail(line)) IN
       IF content = {} THEN [frame |-> ErrorFrame(InvalidRequest), guest |-> g]
       ELSE [frame |-> Frame("w", <<>>), guest |-> content]
  ELSE IF Head(line) = "R"
  THEN IF g # {}
       THEN [frame |-> Frame("r", json_string(TheOne(g))), guest |-> g]
       ELSE [frame |-> ErrorFrame(FailedToRead), guest |-> g]
  ELSE IF line = <<"P">>
  THEN [frame |-> Frame("p", <<>>), guest |-> g]
  ELSE [frame |-> ErrorFrame(InvalidRequest), guest |-> g]

\* VsockClient::write_file
vsock_write_file(g, content, up) ==
  IF ~up THEN Filed(Err("VMCommunication", ""), g)
  ELSE LET answer == process_request(Frame("W", json_string(content)), g)
           line == read_line(answer.frame)
       IN IF Head(line) = "w" THEN Filed(OkUnit, answer.guest)
          ELSE IF Head(line) = "e" THEN Filed(Err("SandboxExecution", ""), answer.guest)
          ELSE Filed(Err("VMCommunication", ""), answer.guest)

\* VsockClient::read_file
vsock_read_file(g, up) ==
  IF ~up THEN Filed(Err("VMCommunication", ""), g)
  ELSE LET answer == process_request(Frame("R", <<>>), g)
           line == read_line(answer.frame)
           content == json_parse_string(trim(Tail(line)))
       IN IF Head(line) = "r" /\ content # {} THEN Filed(Ok(TheOne(content)), g)
          ELSE IF Head(line) = "e" THEN Filed(Err("SandboxExecution", ""), g)
          ELSE Filed(Err("VMCommunication", ""), g)

\* SandboxBackend::write_file, by implementation
write_file(b, h, g, content, up) ==
  IF b.kind = "firecracker"
  THEN vsock_write_file(g, content, up)
  ELSE shell_write_file(b, h, g, content, up)

\* SandboxBackend::read_file, by implementation
read_file(b, h, g, up) ==
  IF b.kind = "firecracker"
  THEN vsock_read_file(g, up)
  ELSE shell_read_file(b, h, g, up)

\* what the latest step did: the call `op`, whether the sandbox could be
\* reached, the content of the latest write_file that returned Ok, and the
\* result
FileCall(op, up, wrote, res) == [op |-> op, up |-> up, wrote |-> wrote, res |-> res]

NoFileCall == FileCall("none", TRUE, {}, OkUnit)

FileRest ==
  /\ guest = {}
  /\ flast = NoFileCall

\* backend.write_file(path, content)
WriteFile(content, up) ==
  /\ LET r == write_file(backend, host, guest, content, up) IN
     /\ guest' = r.guest
     /\ flast' = FileCall("write_file", up,
                          IF r.res.kind = "Ok" THEN {content} ELSE {}, r.res)
  /\ UNCHANGED besidesFile

\* backend.read_file(path)
ReadFile(up) ==
  /\ LET r == read_file(backend, host, guest, up) IN
     /\ guest' = r.guest
     /\ flast' = FileCall("read_file", up, flast.wrote, r.res)
  /\ UNCHANGED besidesFile

FileNext ==
  \/ \E content \in Contents, up \in BOOLEAN : WriteFile(content, up)
  \/ \E up \in BOOLEAN : ReadFile(up)

----------------------------------------------------------------------------
(* The MicroVM, from FirecrackerBackend::new to drop.  The constructor is  *)
(* followed await by await; the hypervisor process creating its sockets is *)
(* the environment.                                                        *)

MaxAttempts == 3

\* a PathBuf: the file stem and the extension of its last component
PathBuf(stem, ext) == [stem |-> stem, ext |-> ext]

\* std::env::temp_dir().join(format!("firecracker-{}.sock", instance_id))
socket_path == PathBuf("firecracker-fc", "sock")

\* Path::with_extension
with_extension(path, ext) == PathBuf(path.stem, ext)

\* the FirecrackerVM that spawn returns
FirecrackerVM(path) ==
  [socket_path |-> path, vsock_path |-> with_extension(path, "vsock"),
   started |-> FALSE]

\* where FirecrackerBackend::new stands, how often the current wait has
\* looked, and the FirecrackerVM it holds, if any
Boot(pc, attempts, vm) == [pc |-> pc, attempts |-> attempts, vm |-> vm]

NoBoot == Boot("none", 0, {})

BootRest == boot = NoBoot

vm_drop_kill_only(b, h) ==
  Ran2(OkUnit, <<"kill">>, b, Lose(h, {"vm"}))

\* Drop for FirecrackerVM: kill, remove_file twice, all errors ignored
vm_drop(b, h) ==
  Ran2(OkUnit, <<"kill", "unlink socket_path", "unlink vsock_path">>, b,
       Lose(h, {"vm", "api_sock", "vsock_sock"}))

\* what dropping a backend runs: FirecrackerBackend drops its FirecrackerVM;
\* the other backends have no Drop
drop(b, h) ==
  IF b.kind = "firecracker" THEN vm_drop(b, h) ELSE Ran2(OkUnit, <<>>, b, h)

\* the constructor returns Err: `?` leaves FirecrackerBackend::new, and a
\* FirecrackerVM it held is dropped
BootFails(op, kind, acts) ==
  LET d == IF boot.vm = {} THEN Ran2(OkUnit, <<>>, NoBackend, host)
           ELSE vm_drop(NoBackend, host)
  IN /\ boot' = Boot("failed", 0, {})
     /\ host' = d.host
     /\ blast' = Call(op, <<>>, NoLink, OkUnit, Err(kind, ""), acts \o d.acts)
     /\ UNCHANGED <<backend, shut_ok>>

\* the constructor goes on to the await `pc`
BootGoes(op, pc, vm, h, acts) ==
  /\ boot' = Boot(pc, 0, vm)
  /\ host' = h
  /\ blast' = Call(op, <<>>, NoLink, OkUnit, OkUnit, acts)
  /\ UNCHANGED <<backend, shut_ok>>

\* AssetManager::get_kernel
GetKernel(ok) ==
  /\ boot.pc = "none"
  /\ backend.kind = "none"
  /\ IF ok
     THEN BootGoes("AssetManager::get_kernel", "create_rootfs_copy", {}, host, <<>>)
     ELSE BootFails("AssetManager::get_kernel", "AssetDownload", <<>>)
  /\ UNCHANGED besidesBoot

\* AssetManager::create_rootfs_copy
CreateRootfsCopy(ok) ==
  /\ boot.pc = "create_rootfs_copy"
  /\ IF ok
     THEN BootGoes("AssetManager::create_rootfs_copy", "get_firecracker_binary", {},
                   Gain(host, {"rootfs"}), <<"copy rootfs">>)
     ELSE BootFails("AssetManager::create_rootfs_copy", "Io", <<>>)
  /\ UNCHANGED besidesBoot

\* AssetManager::get_firecracker_binary
GetFirecrackerBinary(ok) ==
  /\ boot.pc = "get_firecracker_binary"
  /\ IF ok
     THEN BootGoes("AssetManager::get_firecracker_binary", "spawn", {}, host, <<>>)
     ELSE BootFails("AssetManager::get_firecracker_binary", "AssetDownload", <<>>)
  /\ UNCHANGED besidesBoot

\* FirecrackerVM::spawn up to Command::spawn
Spawn(ok) ==
  /\ boot.pc = "spawn"
  /\ IF ok
     THEN BootGoes("FirecrackerVM::spawn", "wait_for_socket", {},
                   Gain(Lose(host, {"api_sock"}), {"vm"}),
                   <<"unlink socket_path", "firecracker">>)
     ELSE /\ boot' = Boot("failed", 0, {})
          /\ host' = Lose(host, {"api_sock"})
          /\ blast' = Call("FirecrackerVM::spawn", <<>>, NoLink, OkUnit,
                           Err("VMBootFailed", ""),
                           <<"unlink socket_path", "firecracker">>)
          /\ UNCHANGED <<backend, shut_ok>>
  /\ UNCHANGED besidesBoot

\* FirecrackerVM::wait_for_socket, one turn of its loop, and the rest of
\* spawn when the socket is there
WaitForSocket ==
  /\ boot.pc = "wait_for_socket"
  /\ IF "api_sock" \in host.live
     THEN BootGoes("FirecrackerVM::wait_for_socket", "configure",
                   {FirecrackerVM(socket_path)}, host, <<>>)
     ELSE IF boot.attempts + 1 < MaxAttempts
     THEN /\ boot' = [boot EXCEPT !.attempts = @ + 1]
          /\ UNCHANGED <<backend, host, blast, shut_ok>>
     ELSE BootFails("FirecrackerVM::wait_for_socket", "VMBootFailed", <<>>)
  /\ UNCHANGED besidesBoot

\* FirecrackerVM::configure
Configure(ok) ==
  /\ boot.pc = "configure"
  /\ IF ok
     THEN BootGoes("FirecrackerVM::configure", "start", boot.vm, host, <<>>)
     ELSE BootFails("FirecrackerVM::configure", "FirecrackerApi", <<>>)
  /\ UNCHANGED besidesBoot

\* FirecrackerVM::start up to `self.started = true`
Start(ok) ==
  /\ boot.pc = "start"
  /\ IF ok
     THEN BootGoes("FirecrackerVM::start", "wait_for_boot",
                   {[v EXCEPT !.started = TRUE] : v \in boot.vm}, host,
                   <<"InstanceStart">>)
     ELSE BootFails("FirecrackerVM::start", "FirecrackerApi", <<"InstanceStart">>)
  /\ UNCHANGED besidesBoot

\* FirecrackerVM::wait_for_boot, one turn of its loop
WaitForBoot ==
  /\ boot.pc = "wait_for_boot"
  /\ IF "vsock_sock" \in host.live
     THEN BootGoes("FirecrackerVM::wait_for_boot", "connect", boot.vm, host, <<>>)
     ELSE IF boot.attempts + 1 < MaxAttempts
     THEN /\ boot' = [boot EXCEPT !.attempts = @ + 1]
          /\ UNCHANGED <<backend, host, blast, shut_ok>>
     ELSE BootFails("FirecrackerVM::wait_for_boot", "VMBootFailed", <<>>)
  /\ UNCHANGED besidesBoot

\* VsockClient::connect and Ok(Self { .. })
Connect(ok) ==
  /\ boot.pc = "connect"
  /\ IF ok
     THEN /\ boot' = Boot("ready", 0, boot.vm)
          /\ backend' = [Backend("firecracker", FALSE, <<>>)
                           EXCEPT !.started = TheOne(boot.vm).started]
          /\ blast' = Call("FirecrackerBackend::new", <<>>, NoLink, OkUnit, OkUnit,
                           <<"connect">>)
          /\ shut_ok' = FALSE
          /\ UNCHANGED host
     ELSE BootFails("VsockClient::connect", "VMCommunication", <<"connect">>)
  /\ UNCHANGED besidesBoot

\* the hypervisor process creates its API socket
ApiSocketAppears ==
  /\ boot.pc = "wait_for_socket"
  /\ "vm" \in host.live
  /\ "api_sock" \notin host.live
  /\ host' = Gain(host, {"api_sock"})
  /\ UNCHANGED <<backend, blast, shut_ok, boot>>
  /\ UNCHANGED besidesBoot

\* the hypervisor process creates the Unix socket of the vsock device
VsockAppears ==
  /\ boot.pc \in {"start", "wait_for_boot", "connect"}
  /\ "vm" \in host.live
  /\ "vsock_sock" \notin host.live
  /\ host' = Gain(host, {"vsock_sock"})
  /\ UNCHANGED <<backend, blast, shut_ok, boot>>
  /\ UNCHANGED besidesBoot

\* the hypervisor process ends on its own
ProcessExits ==
  /\ boot.pc # "none"
  /\ "vm" \in host.live
  /\ host' = Lose(host, {"vm"})
  /\ UNCHANGED <<backend, blast, shut_ok, boot>>
  /\ UNCHANGED besidesBoot

\* the backend goes out of scope
Drop ==
  /\ backend.kind # "none"
  /\ LET r == drop(backend, host) IN
     /\ backend' = NoBackend
     /\ host' = r.host
     /\ blast' = Call("drop", backend.mounts, NoLink, OkUnit, r.res, r.acts)
  /\ UNCHANGED shut_ok
  /\ UNCHANGED besidesBackend

----------------------------------------------------------------------------
(* The guest agent and its connections.  The peers, which connect, write   *)
(* request lines and close, are the environment.                           *)

MaxConns == 2
MaxLines == 2

Conns == 1..MaxConns

\* a byte that is not part of any UTF-8 text
BadByte == "0xFF"

\* the lines a peer may write: ping, write_file, read_file, a JSON text
\* that is no request, and a line that is not UTF-8
RequestLines ==
  {Frame("P", <<>>), Frame("W", json_string(<<"n">>)), Frame("R", <<>>),
   Frame("x", <<>>), <<BadByte, "\n">>}

\* std::str::from_utf8 succeeds
valid_utf8(bytes) == \A k \in 1..Len(bytes) : bytes[k] # BadByte

\* a connection: whether the peer has made it, the request lines it wrote
\* that the agent has not read, whether the peer has closed, every line the
\* peer wrote, every response line the agent wrote, and whether the agent
\* has let go of the stream
Conn(state, inbox, eof, sent, answers, dropped) ==
  [state |-> state, inbox |-> inbox, eof |-> eof, sent |-> sent,
   answers |-> answers, dropped |-> dropped]

NoConn == Conn("unused", <<>>, FALSE, <<>>, <<>>, FALSE)

AgentRest ==
  /\ conns = [c \in Conns |-> NoConn]
  /\ backlog = <<>>
  /\ serving = {}

\* a peer connects; the connection waits for the listener
PeerConnect(c) ==
  /\ conns[c].state = "unused"
  /\ conns' = [conns EXCEPT ![c].state = "open"]
  /\ backlog' = Append(backlog, c)
  /\ UNCHANGED <<serving, guest>>
  /\ UNCHANGED besidesAgent

\* a peer writes a request line
PeerSend(c, line) ==
  /\ conns[c].state = "open"
  /\ ~conns[c].eof
  /\ ~conns[c].dropped
  /\ Len(conns[c].sent) < MaxLines
  /\ conns' = [conns EXCEPT ![c].inbox = Append(@, line),
                            ![c].sent = Append(@, line)]
  /\ UNCHANGED <<backlog, serving, guest>>
  /\ UNCHANGED besidesAgent

\* a peer closes its connection
PeerClose(c) ==
  /\ conns[c].state = "open"
  /\ ~conns[c].eof
  /\ conns' = [conns EXCEPT ![c].eof = TRUE]
  /\ UNCHANGED <<backlog, serving, guest>>
  /\ UNCHANGED besidesAgent

\* run_uds_server / run_vsock_server: listener.incoming() yields the next
\* connection and the loop calls handle_connection on it
Accept ==
  /\ serving = {}
  /\ backlog # <<>>
  /\ serving' = {Head(backlog)}
  /\ backlog' = Tail(backlog)
  /\ UNCHANGED <<conns, guest>>
  /\ UNCHANGED besidesAgent

\* handle_connection, one turn of its loop: read_line, which fails on bytes
\* that are not UTF-8 and returns 0 at the end of the stream; process_request;
\* writeln and flush
Handle ==
  /\ serving # {}
  /\ LET c == TheOne(serving)
         k == conns[c]
     IN IF k.inbox # <<>>
        THEN IF valid_utf8(Head(k.inbox))
             THEN LET a == process_request(Head(k.inbox), guest) IN
                  /\ conns' = [conns EXCEPT ![c].inbox = Tail(@),
                                            ![c].answers = Append(@, a.frame)]
                  /\ guest' = a.guest
                  /\ UNCHANGED serving
             ELSE /\ conns' = [conns EXCEPT ![c].inbox = <<>>, ![c].dropped = TRUE]
                  /\ serving' = {}
                  /\ UNCHANGED guest
        ELSE /\ k.eof
             /\ conns' = [conns EXCEPT ![c].dropped = TRUE]
             /\ serving' = {}
             /\ UNCHANGED guest
  /\ UNCHANGED backlog
  /\ UNCHANGED besidesAgent

AgentNext ==
  \/ \E c \in Conns : PeerConnect(c)
  \/ \E c \in Conns, line \in RequestLines : PeerSend(c, line)
  \/ \E c \in Conns : PeerClose(c)
  \/ Accept
  \/ Handle

\* the SSH backend of one process: built once, used, shut down or dropped
SshNew(b, out) ==
  /\ blast = NoCall
  /\ BackendNew(b, out)

SshNext ==
  \/ \E md \in BOOLEAN, out \in Outcomes : SshNew(Backend("ssh", md, <<>>), out)
  \/ \E out \in Outcomes : Execute(out)
  \/ \E s1, s2 \in Spawns : Shutdown(s1, s2)
  \/ Drop

VmNext ==
  \/ \E ok \in BOOLEAN : GetKernel(ok)
  \/ \E ok \in BOOLEAN : CreateRootfsCopy(ok)
  \/ \E ok \in BOOLEAN : GetFirecrackerBinary(ok)
  \/ \E ok \in BOOLEAN : Spawn(ok)
  \/ WaitForSocket
  \/ \E ok \in BOOLEAN : Configure(ok)
  \/ \E ok \in BOOLEAN : Start(ok)
  \/ WaitForBoot
  \/ \E ok \in BOOLEAN : Connect(ok)
  \/ ApiSocketAppears
  \/ VsockAppears
  \/ ProcessExits
  \/ \E out \in Outcomes \cup {NoLink} : Execute(out)
  \/ \E s1, s2 \in Spawns : Shutdown(s1, s2)
  \/ Drop

----------------------------------------------------------------------------
(* The backend factory.  The features and the target the program was built *)
(* for are fixed; /dev/kvm and the container daemon are the platform.      *)

\* the backend types create_backend matches
BackendTypes == {"Wasmer", "Firecracker", "Docker", "Auto"}

\* the builds: feature "wasmer", feature "firecracker", target_os = "linux"
Builds == [wasmer : BOOLEAN, firecracker : BOOLEAN, linux : BOOLEAN]

\* what the probes read: /dev/kvm is there and accessible, docker info succeeds
Platforms == [kvm : BOOLEAN, docker : BOOLEAN]

\* cfg(all(feature = "firecracker", target_os = "linux"))
cfg_firecracker(build) == build.firecracker /\ build.linux

\* FirecrackerBackend::is_available
firecracker_is_available(build, on) == build.linux /\ on.kvm

\* DockerBackend::is_available
docker_is_available(build, on) == on.docker

\* WasmerBackend::is_available
wasmer_is_available(build, on) == TRUE

\* the fault: the container is tried before the MicroVM
resolve_backend_type_docker_first(requested, build, on) ==
  IF requested = "Auto"
  THEN IF docker_is_available(build, on) THEN Ok("Docker")
       ELSE IF cfg_firecracker(build) /\ firecracker_is_available(build, on)
       THEN Ok("Firecracker")
       ELSE IF build.wasmer THEN Ok("Wasmer")
       ELSE Err("BackendNotAvailable", "auto")
  ELSE Ok(requested)

resolve_backend_type(requested, build, on) ==
  CASE requested = "Auto" ->
         IF cfg_firecracker(build) /\ firecracker_is_available(build, on)
         THEN Ok("Firecracker")
         ELSE IF docker_is_available(build, on) THEN Ok("Docker")
         ELSE IF build.wasmer THEN Ok("Wasmer")
         ELSE Err("BackendNotAvailable", "auto")
    [] requested = "Firecracker" ->
         IF cfg_firecracker(build) /\ ~firecracker_is_available(build, on)
         THEN Err("BackendNotAvailable", "firecracker")
         ELSE Ok("Firecracker")
    [] requested = "Docker" ->
         IF ~docker_is_available(build, on)
         THEN Err("BackendNotAvailable", "docker")
         ELSE Ok("Docker")
    [] OTHER -> Ok(requested)

\* create_backend up to the constructor it calls: the backend type whose
\* constructor runs, or the error
create_backend(requested, build, on) ==
  LET backend_type == resolve_backend_type(requested, build, on) IN
  IF backend_type.kind # "Ok" THEN backend_type
  ELSE CASE TheOne(backend_type.val) = "Wasmer" ->
              IF build.wasmer THEN backend_type
              ELSE Err("BackendNotAvailable", "wasmer")
         [] TheOne(backend_type.val) = "Firecracker" ->
              IF cfg_firecracker(build) THEN backend_type
              ELSE Err("BackendNotAvailable", "firecracker")
         [] OTHER -> backend_type

\* available_backends: the three probes as the program reports them
available_backends(build, on) ==
  [wasmer |-> build.wasmer /\ wasmer_is_available(build, on),
   firecracker |-> cfg_firecracker(build) /\ firecracker_is_available(build, on),
   docker |-> docker_is_available(build, on)]

\* a call of create_backend: the type requested, the platform it found and
\* its result
Created(requested, on, res) == [requested |-> requested, on |-> on, res |-> res]

NotCreated == [requested |-> {}, on |-> {}, res |-> OkUnit]

Factory(build, on, last) == [build |-> build, on |-> on, last |-> last]

FactRest ==
  fact = Factory([wasmer |-> TRUE, firecracker |-> TRUE, linux |-> TRUE],
                 [kvm |-> FALSE, docker |-> FALSE], NotCreated)

CreateBackend(requested) ==
  /\ fact' = [fact EXCEPT !.last =
                Created({requested}, {fact.on},
                        create_backend(requested, fact.build, fact.on))]
  /\ UNCHANGED <<elast, tlast>>
  /\ UNCHANGED besidesCall

\* /dev/kvm appears or goes, the container daemon starts or stops
PlatformChange(on) ==
  /\ on # fact.on
  /\ fact' = [fact EXCEPT !.on = on]
  /\ UNCHANGED <<elast, tlast>>
  /\ UNCHANGED besidesCall

FactoryNext ==
  \/ \E requested \in BackendTypes : CreateBackend(requested)
  \/ \E on \in Platforms : PlatformChange(on)

----------------------------------------------------------------------------
(* The error kinds *)

\* the variants enum BashletError declares
Declared ==
  {"Config", "ConfigNotFound", "ProviderNotFound", "ApiKeyMissing",
   "ProviderApi", "RateLimited", "SandboxInit", "WasmCompilation",
   "SandboxExecution", "SandboxTimeout", "MountPathNotFound", "WasmNotFound",
   "SessionNotFound", "SessionExpired", "SessionNameExists",
   "MaxIterationsExceeded", "ToolNotFound", "InvalidToolInput", "Io", "Json",
   "TomlParse", "Http", "Other"}

\* the variants the backends and the CLI construct
Constructed ==
  {"BackendNotAvailable", "FirecrackerApi", "VMBootFailed", "VMCommunication",
   "AssetDownload", "PresetNotFound"}

ErrorKinds == Declared \cup Constructed

\* what a variant carries: a message, a path, a number of seconds
Payloads == {"", "a", "b", "c"}

BashletError(kind, payload) == [kind |-> kind, payload |-> payload]

\* BashletError::is_retryable
is_retryable(self) == self.kind \in {"RateLimited", "SandboxTimeout"}

Asked(err, retryable) == [err |-> err, retryable |-> retryable]

NotAsked == Asked({}, FALSE)

IsRetryable(kind, payload) ==
  /\ elast' = Asked({BashletError(kind, payload)},
                    is_retryable(BashletError(kind, payload)))
  /\ UNCHANGED <<fact, tlast>>
  /\ UNCHANGED besidesCall

ErrorNext == \E kind \in ErrorKinds, payload \in Payloads : IsRetryable(kind, payload)

----------------------------------------------------------------------------
(* parse_ttl.  The text of --ttl is a sequence of characters.              *)

MaxTtlLen == 3

\* the characters of a --ttl text
TtlAlphabet == {" ", "0", "3", "4", "+", "-", ".", "a", "s", "M", "h", "d"}

RECURSIVE Texts(_)
\* the texts of at most n characters
Texts(n) ==
  IF n = 0 THEN {<<>>}
  ELSE Texts(n - 1)
         \cup {Append(s, c) : s \in {x \in Texts(n - 1) : Len(x) = n - 1},
                              c \in TtlAlphabet}

TtlTexts == Texts(MaxTtlLen)

\* char::to_lowercase
lower(c) == IF c = "M" THEN "m" ELSE c

\* str::to_lowercase
to_lowercase(s) == [k \in 1..Len(s) |-> lower(s[k])]

Digits == {"0", "1", "2", "3", "4", "5", "6", "7", "8", "9"}

digit(c) ==
  CASE c = "0" -> 0 [] c = "1" -> 1 [] c = "2" -> 2 [] c = "3" -> 3
    [] c = "4" -> 4 [] c = "5" -> 5 [] c = "6" -> 6 [] c = "7" -> 7
    [] c = "8" -> 8 [] c = "9" -> 9

RECURSIVE decimal(_)
\* the number a text of digits writes
decimal(s) ==
  IF s = <<>> THEN 0
  ELSE 10 * decimal(SubSeq(s, 1, Len(s) - 1)) + digit(s[Len(s)])

\* <u64 as FromStr>::from_str: an optional "+", then one digit or more, no
\* more than u64::MAX
u64_from_str(s) ==
  LET digits == IF s # <<>> /\ Head(s) = "+" THEN Tail(s) ELSE s IN
  IF digits = <<>> \/ \E k \in 1..Len(digits) : digits[k] \notin Digits
  THEN Err("InvalidDigit", "")
  ELSE IF decimal(digits) > U64Max THEN Err("PosOverflow", "")
  ELSE Ok(decimal(digits))

\* u64 * u64 as the build compiles it
u64_mul(a, b, checks) ==
  IF a * b <= U64Max THEN Ok(a * b)
  ELSE IF checks THEN Panicked
  ELSE Ok((a * b) % U64Mod)

\* the fault: minutes are taken for seconds
parse_ttl_minutes_as_seconds(text, checks) ==
  LET s == to_lowercase(trim(text))
      last == IF s = <<>> THEN "" ELSE s[Len(s)]
      suffixed == last \in {"s", "m", "h", "d"}
      num_str == IF suffixed THEN SubSeq(s, 1, Len(s) - 1) ELSE s
      multiplier == CASE last = "h" -> 3600 [] last = "d" -> 86400 [] OTHER -> 1
      num == u64_from_str(num_str)
  IN IF s = <<>> THEN Err("Config", "")
     ELSE IF num.kind # "Ok" THEN Err("Config", "")
     ELSE u64_mul(TheOne(num.val), multiplier, checks)

parse_ttl(text, checks) ==
  LET s == to_lowercase(trim(text))
      last == IF s = <<>> THEN "" ELSE s[Len(s)]
      suffixed == last \in {"s", "m", "h", "d"}
      num_str == IF suffixed THEN SubSeq(s, 1, Len(s) - 1) ELSE s
      multiplier ==
        CASE last = "s" -> 1 [] last = "m" -> 60 [] last = "h" -> 3600
          [] last = "d" -> 86400 [] OTHER -> 1
      num == u64_from_str(num_str)
  IN IF s = <<>> THEN Err("Config", "")
     ELSE IF num.kind # "Ok" THEN Err("Config", "")
     ELSE u64_mul(TheOne(num.val), multiplier, checks)

Parsed(text, res) == [text |-> text, res |-> res]

NotParsed == Parsed({}, OkUnit)

\* a CLI invocation parses its --ttl once
ParseTtl(text) ==
  /\ tlast = NotParsed
  /\ tlast' = Parsed({text}, parse_ttl(text, overflow_checks))
  /\ UNCHANGED <<fact, elast>>
  /\ UNCHANGED besidesCall

TtlNext == \E text \in TtlTexts : ParseTtl(text)

CallRest ==
  /\ FactRest
  /\ elast = NotAsked
  /\ tlast = NotParsed

----------------------------------------------------------------------------
(* The sessions directory file by file.  fs::write opens the file, which   *)
(* empties it, and then writes the text; other processes run between the   *)
(* two.  A file that is not whole holds an empty or partly written text,   *)
(* which serde_json rejects.                                               *)

MaxWriters == 2

Writers == 1..MaxWriters

\* a file <id>.json: the JSON text of `session`, complete or not
SessionFile(whole, session) == [whole |-> whole, session |-> session]

\* serde_json::from_str::<Session> succeeds
parses(file) == file.whole

\* the session of a file that parses
parsed(file) == file.session

\* the fault: the first file that does not parse ends the reading
list_dir_until_unparseable(d, order) ==
  LET texts == [k \in 1..Len(order) |-> d[order[k]]]
      bad == { k \in 1..Len(texts) : ~parses(texts[k]) }
      read == IF bad = {} THEN texts ELSE SubSeq(texts, 1, Least(bad) - 1)
  IN sort_created_desc([k \in 1..Len(read) |-> parsed(read[k])])

\* SessionManager::list on the directory d read in the order `order`
list_dir(d, order) ==
  LET texts == [k \in 1..Len(order) |-> d[order[k]]]
      read == SelectSeq(texts, parses)
  IN sort_created_desc([k \in 1..Len(read) |-> parsed(read[k])])

\* SessionManager::delete by id or by name
delete_file(d, key, order) ==
  IF key \in DOMAIN d
  THEN [res |-> OkUnit, disk |-> Remove(d, key)]
  ELSE LET sessions == list_dir(d, order)
           hits == NameMatches(sessions, key)
       IN IF hits = {}
          THEN [res |-> Err("SessionNotFound", key), disk |-> d]
          ELSE [res |-> OkUnit, disk |-> Remove(d, sessions[Least(hits)].id)]

\* what get does with the session it read
got_file(d, session, key, victim, order, t) ==
  LET e == is_expired(session, t) IN
  IF e = "panic" THEN [res |-> Panicked, disk |-> d]
  ELSE IF e = "true"
  THEN LET del == delete_file(d, victim, order) IN
       IF del.res.kind = "Ok"
       THEN [res |-> Err("SessionExpired", key), disk |-> del.disk]
       ELSE del
  ELSE [res |-> Ok(session), disk |-> d]

\* SessionManager::get
get_file(d, key, order, t) ==
  IF key \in DOMAIN d
  THEN IF ~parses(d[key]) THEN [res |-> Err("Json", key), disk |-> d]
       ELSE got_file(d, parsed(d[key]), key, key, order, t)
  ELSE LET sessions == list_dir(d, order)
           hits == NameMatches(sessions, key)
       IN IF hits = {}
          THEN [res |-> Err("SessionNotFound", key), disk |-> d]
          ELSE LET session == sessions[Least(hits)] IN
               got_file(d, session, key, session.id, order, t)

\* the call on the directory a step made: its result and, for list, the
\* sessions it returned
OnDisk(op, key, res, sessions) ==
  [op |-> op, key |-> key, res |-> res, sessions |-> sessions]

DiskRest ==
  /\ disk = << >>
  /\ writers = [w \in Writers |-> {}]
  /\ dlast = OnDisk("init", "", OkUnit, <<>>)

\* the sessions a process saves: a new one, made now
NewSessions(t) ==
  { SessionNew(id, {}, "c1", ttl, t) : id \in Ids, ttl \in {{}, {0}} }

\* the sessions a process saves: one it read and touched, as touch does
Touched(d, t) == { SessionTouch(parsed(d[i]), t) : i \in { j \in DOMAIN d : parses(d[j]) } }

\* save, first half: fs::write opens <id>.json for writing, which creates
\* it empty or empties it
SaveOpen(w, session) ==
  /\ writers[w] = {}
  /\ disk' = [i \in (DOMAIN disk) \cup {session.id} |->
                IF i = session.id THEN SessionFile(FALSE, session) ELSE disk[i]]
  /\ writers' = [writers EXCEPT ![w] = {session}]
  /\ dlast' = OnDisk("open", session.id, OkUnit, <<>>)
  /\ UNCHANGED <<now, slast>>
  /\ UNCHANGED besidesDisk

\* save, second half: the text is written; a file that was removed in
\* between stays removed
SaveWrite(w) ==
  /\ writers[w] # {}
  /\ LET session == TheOne(writers[w]) IN
     /\ disk' = IF session.id \in DOMAIN disk
                THEN [disk EXCEPT ![session.id] = SessionFile(TRUE, session)]
                ELSE disk
     /\ dlast' = OnDisk("write", session.id, OkUnit, <<>>)
  /\ writers' = [writers EXCEPT ![w] = {}]
  /\ UNCHANGED <<now, slast>>
  /\ UNCHANGED besidesDisk

\* another process calls get
GetFile(key) ==
  /\ \E order \in DirOrders(disk) :
       LET g == get_file(disk, key, order, now) IN
       /\ disk' = g.disk
       /\ dlast' = OnDisk("get", key, g.res, <<>>)
  /\ UNCHANGED <<now, slast, writers>>
  /\ UNCHANGED besidesDisk

\* another process calls list
ListDir ==
  /\ \E order \in DirOrders(disk) :
       dlast' = OnDisk("list", "", OkUnit, list_dir(disk, order))
  /\ UNCHANGED <<now, slast, writers, disk>>
  /\ UNCHANGED besidesDisk

\* the clock advances
DiskTick ==
  /\ now < MaxNow
  /\ now' = now + 1
  /\ dlast' = OnDisk("tick", "", OkUnit, <<>>)
  /\ UNCHANGED <<slast, writers, disk>>
  /\ UNCHANGED besidesDisk

DiskNext ==
  \/ DiskTick
  \/ \E w \in Writers, session \in NewSessions(now) \cup Touched(disk, now) :
       SaveOpen(w, session)
  \/ \E w \in Writers : SaveWrite(w)
  \/ \E key \in Ids : GetFile(key)
  \/ ListDir

----------------------------------------------------------------------------
(* Session ids.  COUNTER is a static of the process; the timestamp is the  *)
(* clock in milliseconds.  The 24 bits kept of the timestamp and the 8     *)
(* bits kept of the counter are scaled down to TsBits and CtrBits.         *)

TsBits == 4
CtrBits == 2
MaxMs == 3
MaxGen == 5

\* const CHARS
CHARS ==
  <<"0", "1", "2", "3", "4", "5", "6", "7", "8", "9", "a", "b", "c", "d", "e",
    "f", "g", "h", "i", "j", "k", "l", "m", "n", "o", "p", "q", "r", "s", "t",
    "u", "v", "w", "x", "y", "z">>

RECURSIVE base36_without_reverse(_)
base36_without_reverse(n) ==
  IF n = 0 THEN <<>> ELSE <<CHARS[(n % 36) + 1]>> \o base36_without_reverse(n \div 36)

RECURSIVE base36(_)
\* the loop of format_base36 and the reverse: most significant digit first
base36(n) == IF n = 0 THEN <<>> ELSE Append(base36(n \div 36), CHARS[(n % 36) + 1])

\* format_base36
format_base36(n) == IF n = 0 THEN <<"0">> ELSE base36(n)

\* (timestamp & 0xFFFFFF) << 8 | (counter as u64 & 0xFF)
combined(timestamp, counter) ==
  (timestamp % (2 ^ TsBits)) * (2 ^ CtrBits) + (counter % (2 ^ CtrBits))

\* generate_session_id, at the time `timestamp` with COUNTER at `counter`
generate_session_id(timestamp, counter) == format_base36(combined(timestamp, counter))

Generator(ms, counter, ids) == [ms |-> ms, counter |-> counter, ids |-> ids]

GenRest == gen = Generator(0, 0, <<>>)

\* Session::new calls generate_session_id: COUNTER.fetch_add(1)
GenerateId ==
  /\ gen.counter < MaxGen
  /\ gen' = [gen EXCEPT !.counter = @ + 1,
                        !.ids = Append(@, generate_session_id(gen.ms, gen.counter))]
  /\ UNCHANGED besidesGen

\* a millisecond passes
MsTick ==
  /\ gen.ms < MaxMs
  /\ gen' = [gen EXCEPT !.ms = @ + 1]
  /\ UNCHANGED besidesGen

GenNext == GenerateId \/ MsTick

----------------------------------------------------------------------------
(* The MicroVM on the wire.  FirecrackerBackend::new from the spawned      *)
(* hypervisor on: every existence check of its two wait loops and every    *)
(* REST request of configure and start; then the guest RPCs of the backend *)
(* it returned.  The hypervisor, which creates the socket files and        *)
(* answers the requests, and the guest agent are the environment.          *)

\* max_attempts of wait_for_socket and of wait_for_boot, and the delay of
\* both in milliseconds
socket_max_attempts == 50
boot_max_attempts == 100
delay == 100

wait_turn_one_more(exists, attempt, max_attempts, what) ==
  IF exists THEN [done |-> TRUE, res |-> OkUnit, slept |-> 0]
  ELSE IF attempt <= max_attempts
  THEN [done |-> FALSE, res |-> OkUnit, slept |-> delay]
  ELSE [done |-> TRUE, res |-> Err("VMBootFailed", what), slept |-> delay]

\* one turn of `for attempt in 1..=max_attempts`: the existence check of
\* turn `attempt`, the sleep after a check that found nothing, and the
\* Err after the last turn.  done: the loop has returned res
wait_turn(exists, attempt, max_attempts, what) ==
  IF exists THEN [done |-> TRUE, res |-> OkUnit, slept |-> 0]
  ELSE IF attempt < max_attempts
  THEN [done |-> FALSE, res |-> OkUnit, slept |-> delay]
  ELSE [done |-> TRUE, res |-> Err("VMBootFailed", what), slept |-> delay]

\* what the hypervisor answers to a request: Some(status), or {} when the
\* request did not get through
Replies == {{}, {204}, {400}}

\* http::StatusCode::is_success
is_success(status) == 200 <= status /\ status < 300

request_ok_whatever_the_status(path, reply) ==
  IF reply = {}
  THEN [Err("FirecrackerApi", "Request failed") EXCEPT !.val = reply]
  ELSE OkUnit

\* FirecrackerApiClient::request: the error carries the status in val
request(path, reply) ==
  IF reply = {}
  THEN [Err("FirecrackerApi", "Request failed") EXCEPT !.val = reply]
  ELSE IF ~is_success(TheOne(reply))
  THEN [Err("FirecrackerApi", "API error") EXCEPT !.val = reply]
  ELSE OkUnit

\* where FirecrackerBackend::new stands; the existence checks the wait
\* loop it is in has made and the milliseconds that loop has slept, which
\* are gone when the loop returns Ok; whether wait_for_boot has found the
\* vsock socket; FirecrackerVM.started; what new returned
Ctor(pc, checks, slept, seen, started, res) ==
  [pc |-> pc, checks |-> checks, slept |-> slept, seen |-> seen,
   started |-> started, res |-> res]

NoCtor == Ctor("none", 0, 0, FALSE, FALSE, OkUnit)

rpcVars == <<lock, calls, rpcs>>

\* `?` in FirecrackerBackend::new after spawn has returned: the
\* FirecrackerVM is dropped, which removes both socket files
CtorFails(r) ==
  /\ ctor' = [ctor EXCEPT !.pc = "failed", !.res = r]
  /\ socks' = {}

\* FirecrackerVM::wait_for_socket, one turn of its loop.  When it fails,
\* spawn returns before there is a FirecrackerVM
WaitForSocketTurn ==
  /\ ctor.pc = "wait_for_socket"
  /\ LET t == wait_turn("socket_path" \in socks, ctor.checks + 1,
                        socket_max_attempts, "socket_path")
         c == [ctor EXCEPT !.checks = @ + 1, !.slept = @ + t.slept]
     IN ctor' = IF ~t.done THEN c
                ELSE IF t.res.kind = "Ok"
                THEN [ctor EXCEPT !.pc = "put_boot_source", !.checks = 0, !.slept = 0]
                ELSE [c EXCEPT !.pc = "failed", !.res = t.res]
  /\ UNCHANGED <<socks, reqs, rpcVars>>
  /\ UNCHANGED besidesWire

\* one api.put_...(..).await? of configure or start
Put(at, path, body, next, reply) ==
  /\ ctor.pc = at
  /\ reqs' = Append(reqs, [method |-> "PUT", path |-> path, body |-> body,
                           reply |-> reply])
  /\ LET r == request(path, reply) IN
     IF r.kind = "Ok"
     THEN /\ ctor' = [ctor EXCEPT !.pc = next,
                                  !.started = @ \/ (path = "/actions")]
          /\ UNCHANGED socks
     ELSE CtorFails(r)
  /\ UNCHANGED rpcVars
  /\ UNCHANGED besidesWire

\* FirecrackerApiClient::put_boot_source
PutBootSource(reply) ==
  Put("put_boot_source", "/boot-source", "kernel_path", "put_machine_config", reply)

\* FirecrackerApiClient::put_machine_config
PutMachineConfig(reply) ==
  Put("put_machine_config", "/machine-config", "vcpu_count", "put_drive", reply)

\* FirecrackerApiClient::put_drive of "rootfs"
PutDrive(reply) ==
  Put("put_drive", "/drives/rootfs", "rootfs_path", "put_vsock", reply)

\* FirecrackerApiClient::put_vsock
PutVsock(reply) ==
  Put("put_vsock", "/vsock", "vsock_path", "put_actions", reply)

\* FirecrackerApiClient::put_actions of "InstanceStart", and
\* `self.started = true`
PutActions(reply) ==
  Put("put_actions", "/actions", "InstanceStart", "wait_for_boot", reply)

\* FirecrackerVM::wait_for_boot, one turn of its loop
WaitForBootTurn ==
  /\ ctor.pc = "wait_for_boot"
  /\ LET t == wait_turn("vsock_path" \in socks, ctor.checks + 1,
                        boot_max_attempts, "vsock_path")
         c == [ctor EXCEPT !.checks = @ + 1, !.slept = @ + t.slept]
     IN IF ~t.done THEN ctor' = c /\ UNCHANGED socks
        ELSE IF t.res.kind = "Ok"
        THEN /\ ctor' = [ctor EXCEPT !.pc = "connect", !.seen = TRUE,
                                     !.checks = 0, !.slept = 0]
             /\ UNCHANGED socks
        ELSE /\ ctor' = [c EXCEPT !.pc = "failed", !.res = t.res]
             /\ socks' = {}
  /\ UNCHANGED <<reqs, rpcVars>>
  /\ UNCHANGED besidesWire

\* VsockClient::connect, which opens a connection and drops it at once,
\* and Ok(Self { .. })
VsockConnect(ok) ==
  /\ ctor.pc = "connect"
  /\ IF ok
     THEN ctor' = [ctor EXCEPT !.pc = "ready"] /\ UNCHANGED socks
     ELSE CtorFails(Err("VMCommunication", "Failed to connect to vsock"))
  /\ UNCHANGED <<reqs, rpcVars>>
  /\ UNCHANGED besidesWire

\* the hypervisor process binds its API socket
HypervisorListens ==
  /\ ctor.pc = "wait_for_socket"
  /\ "socket_path" \notin socks
  /\ socks' = socks \cup {"socket_path"}
  /\ UNCHANGED <<ctor, reqs, rpcVars>>
  /\ UNCHANGED besidesWire

\* the hypervisor binds the Unix socket of the vsock device it was given
VsockBound ==
  /\ ctor.pc \in {"put_actions", "wait_for_boot"}
  /\ "vsock_path" \notin socks
  /\ socks' = socks \cup {"vsock_path"}
  /\ UNCHANGED <<ctor, reqs, rpcVars>>
  /\ UNCHANGED besidesWire

\* tokio::sync::Mutex: the caller that holds the guard, if any, and the
\* callers waiting for it, the one that asked first at the head
Mutex(owner, waiters) == [owner |-> owner, waiters |-> waiters]

mutex_lock_without_waiting(m, c) == [m EXCEPT !.owner = @ \cup {c}]

\* self.client.lock(): the guard at once when the mutex is free, a place at
\* the end of the queue otherwise
mutex_lock(m, c) ==
  IF m.owner = {} /\ m.waiters = <<>>
  THEN [m EXCEPT !.owner = {c}]
  ELSE [m EXCEPT !.waiters = Append(@, c)]

\* the guard goes out of scope when the method returns: the mutex is handed
\* to the head of the queue
mutex_unlock(m) ==
  IF m.waiters = <<>> THEN Mutex({}, <<>>)
  ELSE Mutex({Head(m.waiters)}, Tail(m.waiters))

MaxCallers == 3
MaxRpcs == 3

Callers == 1..MaxCallers

\* the methods of SandboxBackend that talk to the guest
Methods == {"execute", "read_file", "write_file", "list_dir"}

\* a reply line: a JSON object with its fields, or a text that is not one
Line(json, obj) == [json |-> json, obj |-> obj]

\* the lines a guest can answer with: nothing before the end of the stream,
\* a text that is not JSON, objects without a type, of a type that is not a
\* response, with a field missing, with one field more than the response
\* has, and one well-formed response of each type
ReplyLines ==
  { Line(FALSE, [text |-> ""]),
    Line(FALSE, [text |-> "garbage"]),
    Line(TRUE, [message |-> "m"]),
    Line(TRUE, [type |-> "ping"]),
    Line(TRUE, [type |-> "execute", exit_code |-> 0]),
    Line(TRUE, [type |-> "execute", exit_code |-> 1, stdout |-> "", stderr |-> "e"]),
    Line(TRUE, [type |-> "read_file", content |-> "c"]),
    Line(TRUE, [type |-> "write_file", success |-> TRUE]),
    Line(TRUE, [type |-> "write_file", success |-> TRUE, more |-> 0]),
    Line(TRUE, [type |-> "write_file", success |-> FALSE]),
    Line(TRUE, [type |-> "pong"]),
    Line(TRUE, [type |-> "error", message |-> "m"]) }

\* what the stream does after the connection is made: a write, the flush or
\* the read fails, or the read returns a line
Io(failed, line) == [failed |-> failed, line |-> line]

Ios ==
  {Io(f, Line(FALSE, [text |-> ""])) : f \in {"Write failed", "Flush failed", "Read failed"}}
    \cup {Io("", l) : l \in ReplyLines}

\* enum AgentResponse, tagged by "type": the fields of each variant
AgentResponse ==
  [execute |-> {"exit_code", "stdout", "stderr"},
   read_file |-> {"content"},
   write_file |-> {"success"},
   pong |-> {},
   error |-> {"message"}]

\* serde_json::from_str::<AgentResponse>: the line has to be an object
\* whose type names a variant and which has the fields of the variant;
\* fields the variant does not have are ignored
from_str(line) ==
  IF ~line.json \/ "type" \notin DOMAIN line.obj THEN Err("Json", "")
  ELSE IF line.obj.type \notin DOMAIN AgentResponse THEN Err("Json", "")
  ELSE IF ~(AgentResponse[line.obj.type] \subseteq DOMAIN line.obj) THEN Err("Json", "")
  ELSE Ok([f \in AgentResponse[line.obj.type] \cup {"type"} |-> line.obj[f]])

\* VsockClient::send_request after UnixStream::connect
send_request(io) ==
  IF io.failed # "" THEN Err("VMCommunication", io.failed)
  ELSE IF from_str(io.line).kind # "Ok"
  THEN Err("VMCommunication", "Failed to parse response")
  ELSE from_str(io.line)

\* the match of VsockClient::execute and of VsockClient::read_file on the
\* response, for the variant `own` they ask for
match_response(own, sent) ==
  IF sent.kind # "Ok" THEN sent
  ELSE LET response == TheOne(sent.val) IN
       IF response.type = own THEN Ok(response)
       ELSE IF response.type = "error" THEN Err("SandboxExecution", response.message)
       ELSE Err("VMCommunication", "Unexpected response type")

\* VsockClient::execute
client_execute(io) == match_response("execute", send_request(io))

\* VsockClient::read_file
client_read_file(io) == match_response("read_file", send_request(io))

client_write_file_whatever_success(io) == match_response("write_file", send_request(io))

\* VsockClient::write_file
client_write_file(io) ==
  LET sent == send_request(io) IN
  IF sent.kind # "Ok" THEN sent
  ELSE LET response == TheOne(sent.val) IN
       IF response.type = "write_file" /\ response.success THEN OkUnit
       ELSE IF response.type = "write_file"
       THEN Err("SandboxExecution", "Failed to write file")
       ELSE IF response.type = "error" THEN Err("SandboxExecution", response.message)
       ELSE Err("VMCommunication", "Unexpected response type")

\* what the method of FirecrackerBackend makes of the stream: list_dir is
\* execute of `ls -la`, of which it keeps the stdout
rpc_result(method, io) ==
  CASE method = "execute" -> client_execute(io)
    [] method = "list_dir" ->
         LET r == client_execute(io) IN
         IF r.kind = "Ok" THEN Ok(TheOne(r.val).stdout) ELSE r
    [] method = "read_file" -> client_read_file(io)
    [] method = "write_file" -> client_write_file(io)

\* the request each method sends
request_type(method) == IF method = "list_dir" THEN "execute" ELSE method

\* a task that calls the backend: where its call stands, the method, and
\* the UnixStream it holds
Caller(pc, method, stream) == [pc |-> pc, method |-> method, stream |-> stream]

Resting == Caller("idle", "", {})

\* the callers in the order they asked for the lock and in the order they
\* got it, the connections opened and closed, and the call that returned
\* last
Rpcs(asked, served, opened, closed, last) ==
  [asked |-> asked, served |-> served, opened |-> opened, closed |-> closed,
   last |-> last]

Returned(caller, method, connected, io, res) ==
  [caller |-> caller, method |-> method, connected |-> connected, io |-> io,
   res |-> res]

NoRpcs == Rpcs(<<>>, <<>>, 0, 0, {})

WireRest ==
  /\ ctor = NoCtor
  /\ socks = {}
  /\ reqs = <<>>
  /\ lock = Mutex({}, <<>>)
  /\ calls = [c \in Callers |-> Resting]
  /\ rpcs = NoRpcs

\* a caller calls a method of the backend, up to `self.client.lock().await`
Ask(c, method) ==
  /\ ctor.pc = "ready"
  /\ calls[c].pc = "idle"
  /\ Len(rpcs.asked) < MaxRpcs
  /\ lock' = mutex_lock(lock, c)
  /\ calls' = [calls EXCEPT ![c] =
                 Caller(IF c \in lock'.owner THEN "locked" ELSE "waiting", method, {})]
  /\ rpcs' = [rpcs EXCEPT !.asked = Append(@, c),
                          !.served = IF c \in lock'.owner THEN Append(@, c) ELSE @]
  /\ UNCHANGED <<ctor, socks, reqs>>
  /\ UNCHANGED besidesWire

\* the method returns: the stream and the guard are dropped, and the caller
\* the mutex is handed to goes on
Return(c, connected, io, res) ==
  /\ lock' = mutex_unlock(lock)
  /\ calls' = [d \in Callers |->
                 IF d = c THEN Resting
                 ELSE IF d \in lock'.owner /\ calls[d].pc = "waiting"
                 THEN [calls[d] EXCEPT !.pc = "locked"]
                 ELSE calls[d]]
  /\ rpcs' = [rpcs EXCEPT
                !.served = IF lock'.owner = {} THEN @ ELSE Append(@, TheOne(lock'.owner)),
                !.closed = IF connected THEN @ + 1 ELSE @,
                !.last = {Returned(c, calls[c].method, connected, io, res)}]

\* send_request: UnixStream::connect
RpcConnect(c, ok) ==
  /\ calls[c].pc = "locked"
  /\ IF ok
     THEN /\ calls' = [calls EXCEPT ![c].pc = "connected",
                                    ![c].stream = {rpcs.opened + 1}]
          /\ rpcs' = [rpcs EXCEPT !.opened = @ + 1]
          /\ UNCHANGED lock
     ELSE Return(c, FALSE, Io("Connection failed", Line(FALSE, [text |-> ""])),
                 Err("VMCommunication", "Connection failed"))
  /\ UNCHANGED <<ctor, socks, reqs>>
  /\ UNCHANGED besidesWire

\* the reqs of send_request, the match on the response and the return
RpcExchange(c, io) ==
  /\ calls[c].pc = "connected"
  /\ Return(c, TRUE, io, rpc_result(calls[c].method, io))
  /\ UNCHANGED <<ctor, socks, reqs>>
  /\ UNCHANGED besidesWire

\* the steps of the constructor and of the callers, the streams behaving
\* as one of ios
WireNextOver(ios) ==
  \/ WaitForSocketTurn
  \/ \E reply \in Replies : PutBootSource(reply)
  \/ \E reply \in Replies : PutMachineConfig(reply)
  \/ \E reply \in Replies : PutDrive(reply)
  \/ \E reply \in Replies : PutVsock(reply)
  \/ \E reply \in Replies : PutActions(reply)
  \/ WaitForBootTurn
  \/ \E ok \in BOOLEAN : VsockConnect(ok)
  \/ HypervisorListens
  \/ VsockBound
  \/ \E c \in Callers, method \in Methods : Ask(c, method)
  \/ \E c \in Callers, ok \in BOOLEAN : RpcConnect(c, ok)
  \/ \E c \in Callers, io \in ios : RpcExchange(c, io)

WireNext == WireNextOver(Ios)

\* for the order of the callers it is enough that a stream fails or
\* delivers a response
LiveIos ==
  { Io("Read failed", Line(FALSE, [text |-> ""])),
    Io("", Line(TRUE, [type |-> "pong"])) }

WireLiveNext == WireNextOver(LiveIos)

----------------------------------------------------------------------------
(* The root drive.  Several MicroVM backends, of one process or of several, *)
(* are built side by side over one cache directory; the clock is the wall   *)
(* clock in milliseconds.  A path is the sequence of its components, a file *)
(* name the sequence of its pieces.                                         *)

MaxInstances == 2
MaxWall == 1

Instances == 1..MaxInstances

HexDigits ==
  <<"0", "1", "2", "3", "4", "5", "6", "7", "8", "9", "a", "b", "c", "d", "e", "f">>

\* format!("{:x}", n)
RECURSIVE hex(_)
hex(n) ==
  IF n < 16 THEN <<HexDigits[n + 1]>>
  ELSE Append(hex(n \div 16), HexDigits[(n % 16) + 1])

\* generate_instance_id at the time `timestamp`
generate_instance_id(timestamp) == <<"fc-">> \o hex(timestamp)

\* AssetManager::new: get_cache_dir().join("firecracker")
cache_dir == <<<<"cache">>, <<"firecracker">>>>

\* AssetManager::get_rootfs(None): the image all instances are copied from
get_rootfs == Append(cache_dir, <<"rootfs.ext4">>)

\* AssetManager::create_rootfs_copy: `cp --reflink=auto`, and
\* tokio::fs::copy when that fails
create_rootfs_copy(instance_id, reflink, copy) ==
  LET source == get_rootfs
      instances_dir == Append(cache_dir, <<"instances">>)
      dest == Append(instances_dir, instance_id \o <<".rootfs.ext4">>)
  IN IF reflink THEN [res |-> Ok(dest), source |-> source, how |-> "reflink"]
     ELSE IF copy THEN [res |-> Ok(dest), source |-> source, how |-> "copy"]
     ELSE [res |-> Err("Io", ""), source |-> source, how |-> "none"]

\* a backend under construction: where FirecrackerBackend::new stands, its
\* instance_id and rootfs_path once they are there, how the copy was made,
\* and the path_on_host of the drive the hypervisor was given
Inst(pc, instance_id, rootfs_path, how, drive) ==
  [pc |-> pc, instance_id |-> instance_id, rootfs_path |-> rootfs_path,
   how |-> how, drive |-> drive]

NoInst == Inst("new", <<>>, {}, "none", {})

\* the files that can come to be in the cache directory
Images ==
  {get_rootfs} \cup
    {TheOne(create_rootfs_copy(generate_instance_id(ms), TRUE, TRUE).res.val) :
       ms \in 0..MaxWall}

\* an image: the instances it was copied for and the instances whose VM
\* has it as a writable drive
Image(copied_for, written_by) == [copied_for |-> copied_for, written_by |-> written_by]

RootfsRest ==
  /\ wall = 0
  /\ insts = [i \in Instances |-> NoInst]
  /\ images = [p \in Images |-> Image({}, {})]

\* the wall clock goes on
WallTick ==
  /\ wall < MaxWall
  /\ wall' = wall + 1
  /\ UNCHANGED <<insts, images>>
  /\ UNCHANGED besidesRootfs

\* FirecrackerBackend::new up to generate_instance_id
GenerateInstanceId(i) ==
  /\ insts[i].pc = "new"
  /\ insts' = [insts EXCEPT ![i] =
                 Inst("create_rootfs_copy", generate_instance_id(wall), {}, "none", {})]
  /\ UNCHANGED <<wall, images>>
  /\ UNCHANGED besidesRootfs

\* assets.create_rootfs_copy(&instance_id).await?
CreateInstanceRootfs(i, reflink, copy) ==
  /\ insts[i].pc = "create_rootfs_copy"
  /\ LET r == create_rootfs_copy(insts[i].instance_id, reflink, copy) IN
     IF r.res.kind = "Ok"
     THEN /\ insts' = [insts EXCEPT ![i].pc = "configure",
                                    ![i].rootfs_path = r.res.val,
                                    ![i].how = r.how]
          /\ images' = [images EXCEPT ![TheOne(r.res.val)].copied_for = @ \cup {i}]
     ELSE /\ insts' = [insts EXCEPT ![i].pc = "failed"]
          /\ UNCHANGED images
  /\ UNCHANGED wall
  /\ UNCHANGED besidesRootfs

\* vm.configure: put_drive("rootfs", &config.rootfs_path, false), after
\* which the VM has the file as its writable root device
PutRootDrive(i, ok) ==
  /\ insts[i].pc = "configure"
  /\ IF ok
     THEN /\ insts' = [insts EXCEPT ![i].pc = "running",
                                    ![i].drive = insts[i].rootfs_path]
          /\ images' = [images EXCEPT ![TheOne(insts[i].rootfs_path)].written_by = @ \cup {i}]
     ELSE /\ insts' = [insts EXCEPT ![i].pc = "failed"]
          /\ UNCHANGED images
  /\ UNCHANGED wall
  /\ UNCHANGED besidesRootfs

\* the backend is dropped and another is built in its place
Rebuild(i) ==
  /\ insts[i].pc \in {"running", "failed"}
  /\ insts' = [insts EXCEPT ![i] = NoInst]
  /\ images' = [p \in Images |-> [images[p] EXCEPT !.written_by = @ \ {i}]]
  /\ UNCHANGED wall
  /\ UNCHANGED besidesRootfs

RootfsNext ==
  \/ WallTick
  \/ \E i \in Instances : GenerateInstanceId(i)
  \/ \E i \in Instances, reflink, copy \in BOOLEAN : CreateInstanceRootfs(i, reflink, copy)
  \/ \E i \in Instances, ok \in BOOLEAN : PutRootDrive(i, ok)
  \/ \E i \in Instances : Rebuild(i)

----------------------------------------------------------------------------
(* The commands create, run and exec with the backend they build, one      *)
(* invocation after the other.  A session is followed by what the claims   *)
(* on presets need: whether it was made with a preset, whether a backend   *)
(* had been created for it, and how many setup commands of its preset have *)
(* not run with exit code 0.  The outcome of create_backend and of each    *)
(* command in the sandbox is the environment's answer.                     *)

\* the largest number of setup_commands of a preset
MaxSetup == 2

CliNames == {"s1", "s2"}

\* a preset of the configuration with n setup_commands, or a name that the
\* configuration does not have
Preset(known, n) == [known |-> known, setup |-> n]
PresetArgs ==
  {{}} \cup {{Preset(FALSE, 0)}} \cup {{Preset(TRUE, n)} : n \in 0..MaxSetup}

\* apply_preset: the setup_commands of the preset, by their number
apply_preset(preset) ==
  IF preset = {} THEN Ok(0)
  ELSE IF ~TheOne(preset).known THEN Err("PresetNotFound", "")
  ELSE Ok(TheOne(preset).setup)

\* how a command in the sandbox may end: backend.execute fails, or returns
\* a result with this exit code
Executions == {"Err", "0", "1"}
Formats == {"Text", "Json"}

\* the invocation: the command, where it is, the session it names, whether
\* a preset was given, the setup commands it has yet to run, whether it made the session, the calls
\* made on its backend (<<>> when none was built), whether the user command
\* ran, its result, and how it ended: "returned" or "exited"
Cli(cmd, pc, session, preset, setup, fresh, on_backend, ran, res, ended) ==
  [cmd |-> cmd, pc |-> pc, session |-> session, preset |-> preset # {},
   setup |-> setup, fresh |-> fresh, backend |-> on_backend, ran |-> ran, res |-> res,
   ended |-> ended]

NoCli == Cli("none", "idle", {}, {}, 0, FALSE, <<>>, FALSE, OkUnit, "")

\* a stored session
Kept(preset, made, left) == [preset |-> preset, backend |-> made, setup_left |-> left]

CliRest ==
  /\ cli = NoCli
  /\ recs = << >>

\* the function returns: its locals, the backend among them, are dropped
returns(c, res) ==
  [c EXCEPT !.pc = "done", !.res = res, !.ended = "returned",
            !.backend = IF @ = <<>> THEN @ ELSE Append(@, "drop")]

\* std::process::exit in output_command_result: no destructor runs
exits(c) == [c EXCEPT !.pc = "done", !.res = OkUnit, !.ended = "exited"]

\* where a command goes after create_backend or a setup command
after_setup(cmd, left) ==
  IF left > 0 THEN "setup" ELSE IF cmd = "create" THEN "save" ELSE "command"

\* create, lines 94-134: the name check, parse_ttl, apply_preset, Session::new
CliCreate(name, preset, ttl_ok) ==
  /\ cli.pc = "idle"
  /\ LET c == Cli("create", "create_backend", {name}, preset, 0, TRUE, <<>>, FALSE, OkUnit, "")
         p == apply_preset(preset)
     IN cli' = IF name \in DOMAIN recs THEN returns(c, Err("SessionNameExists", name))
               ELSE IF ~ttl_ok THEN returns(c, Err("Config", ""))
               ELSE IF p.kind # "Ok" THEN returns(c, p)
               ELSE [c EXCEPT !.setup = TheOne(p.val)]
  /\ UNCHANGED recs
  /\ UNCHANGED besidesCli

\* run, lines 197-252: manager.get; for --create on SessionNotFound parse_ttl,
\* apply_preset, Session::new and manager.save; then manager.touch
CliRun(name, create, preset, ttl_ok) ==
  /\ cli.pc = "idle"
  /\ LET c == Cli("run", "create_backend", {name}, preset, 0, FALSE, <<>>, FALSE, OkUnit, "")
         p == apply_preset(preset)
     IN IF name \in DOMAIN recs
        THEN cli' = c /\ UNCHANGED recs
        ELSE IF ~create
        THEN cli' = returns(c, Err("SessionNotFound", name)) /\ UNCHANGED recs
        ELSE IF ~ttl_ok
        THEN cli' = returns(c, Err("Config", "")) /\ UNCHANGED recs
        ELSE IF p.kind # "Ok"
        THEN cli' = returns(c, p) /\ UNCHANGED recs
        ELSE /\ cli' = [c EXCEPT !.setup = TheOne(p.val), !.fresh = TRUE]
             /\ recs' = [s \in (DOMAIN recs) \cup {name} |->
                           IF s = name THEN Kept(c.preset, FALSE, TheOne(p.val))
                           ELSE recs[s]]
  /\ UNCHANGED besidesCli

\* exec, lines 314-354: apply_preset
CliExec(preset) ==
  /\ cli.pc = "idle"
  /\ LET c == Cli("exec", "create_backend", {}, preset, 0, FALSE, <<>>, FALSE, OkUnit, "")
         p == apply_preset(preset)
     IN cli' = IF p.kind # "Ok" THEN returns(c, p)
               ELSE [c EXCEPT !.setup = TheOne(p.val)]
  /\ UNCHANGED recs
  /\ UNCHANGED besidesCli

\* the session of the invocation, when the invocation made it and it is
\* stored, is brought up to date
Noted(made, left) ==
  IF cli.fresh /\ cli.session # {} /\ TheOne(cli.session) \in DOMAIN recs
  THEN [recs EXCEPT ![TheOne(cli.session)] =
          [@ EXCEPT !.backend = made, !.setup_left = left]]
  ELSE recs

\* let backend = create_backend(&sandbox_config, runtime).await?
CliCreateBackend(ok) ==
  /\ cli.pc = "create_backend"
  /\ IF ok
     THEN /\ cli' = [cli EXCEPT !.backend = <<"new">>,
                                !.pc = after_setup(cli.cmd, cli.setup)]
          /\ recs' = Noted(TRUE, cli.setup)
     ELSE /\ cli' = returns(cli, Err("SandboxInit", ""))
          /\ UNCHANGED recs
  /\ UNCHANGED besidesCli

\* one turn of the loop over setup_commands
CliSetup(out) ==
  /\ cli.pc = "setup"
  /\ LET c == [cli EXCEPT !.backend = Append(@, "execute")] IN
     IF out = "Err"
     THEN cli' = returns(c, Err("SandboxExecution", "")) /\ UNCHANGED recs
     ELSE IF out # "0"
     THEN cli' = returns(c, Err("SandboxExecution", "Setup command failed"))
          /\ UNCHANGED recs
     ELSE /\ cli' = [c EXCEPT !.setup = @ - 1,
                              !.pc = after_setup(cli.cmd, cli.setup - 1)]
          /\ recs' = Noted(TRUE, cli.setup - 1)
  /\ UNCHANGED besidesCli

\* create, lines 170-194: manager.save(&session) and the output
CliSave ==
  /\ cli.pc = "save"
  /\ recs' = [s \in (DOMAIN recs) \cup cli.session |->
                IF s \in cli.session THEN Kept(cli.preset, TRUE, cli.setup) ELSE recs[s]]
  /\ cli' = returns(cli, OkUnit)
  /\ UNCHANGED besidesCli

\* output_command_result: in the Text format a non-zero exit code ends the
\* process with std::process::exit
output_command_result(c, code, format) ==
  IF format = "Text" /\ code # "0" THEN exits(c) ELSE returns(c, OkUnit)

\* run, lines 282-286, and exec, lines 371-375: the command, then
\* output_command_result
CliCommand(out, format) ==
  /\ cli.pc = "command"
  /\ LET c == [cli EXCEPT !.backend = Append(@, "execute")] IN
     cli' = IF out = "Err" THEN returns(c, Err("SandboxExecution", ""))
            ELSE output_command_result([c EXCEPT !.ran = TRUE], out, format)
  /\ UNCHANGED recs
  /\ UNCHANGED besidesCli

\* terminate: manager.delete(&args.session)
CliTerminate(name) ==
  /\ cli.pc = "idle"
  /\ name \in DOMAIN recs
  /\ recs' = [s \in (DOMAIN recs) \ {name} |-> recs[s]]
  /\ UNCHANGED cli
  /\ UNCHANGED besidesCli

\* the process is gone; the next invocation may start
CliEnd ==
  /\ cli.pc = "done"
  /\ cli' = NoCli
  /\ UNCHANGED recs
  /\ UNCHANGED besidesCli

CliNext ==
  \/ \E name \in CliNames, preset \in PresetArgs, ttl_ok \in BOOLEAN :
       CliCreate(name, preset, ttl_ok)
  \/ \E name \in CliNames, create \in BOOLEAN, preset \in PresetArgs, ttl_ok \in BOOLEAN :
       CliRun(name, create, preset, ttl_ok)
  \/ \E preset \in PresetArgs : CliExec(preset)
  \/ \E ok \in BOOLEAN : CliCreateBackend(ok)
  \/ \E out \in Executions : CliSetup(out)
  \/ CliSave
  \/ \E out \in Executions, format \in Formats : CliCommand(out, format)
  \/ \E name \in CliNames : CliTerminate(name)
  \/ CliEnd

----------------------------------------------------------------------------
(* The native tool proxy.  A wrapper script in the sandbox writes a request *)
(* file, waits for the response file, reads it and removes both; the        *)
(* background task of start_proxy polls the requests directory every 50 ms. *)
(* Each file operation and each tool execution is one step: the steps of    *)
(* the task and of the wrapper scripts interleave.                          *)

\* the request ids: "$$-$(date +%s%N)" of the wrapper invocations
RequestIds == {"r1", "r2"}

\* how often the model lets the proxy take up one request
MaxRuns == 2

\* the task of start_proxy: asleep, or in process_requests with the entries
\* of read_dir it has yet to visit
Polling(todo) == [asleep |-> FALSE, todo |-> todo]
Asleep == [asleep |-> TRUE, todo |-> {}]

ProxyRest ==
  /\ req_dir = {}
  /\ resp_dir = {}
  /\ wrappers = [r \in RequestIds |-> "none"]
  /\ tool_runs = [r \in RequestIds |-> 0]
  /\ responses = [r \in RequestIds |-> 0]
  /\ poll = Asleep

\* the wrapper script: cat > "$REQ_DIR/$REQ_ID.json"
WrapperRequest(r) ==
  /\ wrappers[r] = "none"
  /\ req_dir' = req_dir \cup {r}
  /\ wrappers' = [wrappers EXCEPT ![r] = "waiting"]
  /\ UNCHANGED <<resp_dir, tool_runs, responses, poll>>
  /\ UNCHANGED besidesProxy

\* the wrapper script: the loop `while [ ! -f "$RESP_DIR/$REQ_ID.json" ]`
\* ends and the script reads the response and prints it
WrapperRead(r) ==
  /\ wrappers[r] = "waiting"
  /\ r \in resp_dir
  /\ wrappers' = [wrappers EXCEPT ![r] = "read"]
  /\ UNCHANGED <<req_dir, resp_dir, tool_runs, responses, poll>>
  /\ UNCHANGED besidesProxy

\* the wrapper script: rm -f "$REQ_DIR/$REQ_ID.json" "$RESP_FILE"; exit
WrapperCleanup(r) ==
  /\ wrappers[r] = "read"
  /\ req_dir' = req_dir \ {r}
  /\ resp_dir' = resp_dir \ {r}
  /\ wrappers' = [wrappers EXCEPT ![r] = "exited"]
  /\ UNCHANGED <<tool_runs, responses, poll>>
  /\ UNCHANGED besidesProxy

\* the wrapper script: after TIMEOUT seconds without a response it removes
\* the request and exits with 124
WrapperTimeout(r) ==
  /\ wrappers[r] = "waiting"
  /\ r \notin resp_dir
  /\ req_dir' = req_dir \ {r}
  /\ wrappers' = [wrappers EXCEPT ![r] = "exited"]
  /\ UNCHANGED <<resp_dir, tool_runs, responses, poll>>
  /\ UNCHANGED besidesProxy

\* start_proxy, the task: sleep(50 ms) is over; process_requests reads the
\* requests directory
process_requests ==
  /\ poll.asleep
  /\ poll' = Polling(req_dir)
  /\ UNCHANGED <<req_dir, resp_dir, wrappers, tool_runs, responses>>
  /\ UNCHANGED besidesProxy

\* process_single_request on one entry, and the error arm of
\* process_requests: the request is read; the tool runs and its output is
\* written as the response, or something fails on the way (`ran` is false)
\* and an error response is written when the request can still be read
process_single_request(r, ran) ==
  /\ ~poll.asleep
  /\ r \in poll.todo
  /\ poll' = Polling(poll.todo \ {r})
  /\ IF r \notin req_dir
     THEN UNCHANGED <<resp_dir, tool_runs, responses>>
     ELSE /\ tool_runs[r] < MaxRuns
          /\ tool_runs' = [tool_runs EXCEPT ![r] = IF ran THEN @ + 1 ELSE @]
          /\ resp_dir' = resp_dir \cup {r}
          /\ responses' = [responses EXCEPT ![r] = IF @ < MaxRuns THEN @ + 1 ELSE @]
  /\ UNCHANGED <<req_dir, wrappers>>
  /\ UNCHANGED besidesProxy

\* process_requests has visited every entry and returns; the task sleeps
ProcessRequestsReturns ==
  /\ ~poll.asleep
  /\ poll.todo = {}
  /\ poll' = Asleep
  /\ UNCHANGED <<req_dir, resp_dir, wrappers, tool_runs, responses>>
  /\ UNCHANGED besidesProxy

ProxyNext ==
  \/ \E r \in RequestIds : WrapperRequest(r)
  \/ \E r \in RequestIds : WrapperRead(r)
  \/ \E r \in RequestIds : WrapperCleanup(r)
  \/ \E r \in RequestIds : WrapperTimeout(r)
  \/ process_requests
  \/ \E r \in RequestIds, ran \in BOOLEAN : process_single_request(r, ran)
  \/ ProcessRequestsReturns

----------------------------------------------------------------------------
(* format_base36 on its own: any argument up to MaxArg, which has numerals *)
(* of one, two and three digits.                                           *)

MaxArg == 1400

\* the latest call of format_base36: its argument and what it returned
Formatted(n, text) == [n |-> n, text |-> text]
NotFormatted == Formatted({}, <<>>)

FormatRest == formatted = NotFormatted

\* format_base36(n)
FormatBase36(n) ==
  /\ formatted = NotFormatted
  /\ formatted' = Formatted({n}, format_base36(n))
  /\ UNCHANGED besidesFormat

FormatNext == \E n \in 0..MaxArg : FormatBase36(n)

----------------------------------------------------------------------------
(* Specifications: each follows one part of the program and holds the     *)
(* rest still.                                                             *)

StoreRest ==
  /\ files = << >>
  /\ now = 0
  /\ overflow_checks = FALSE
  /\ procs = << >>
  /\ cmds = 0
  /\ slast = Did("init", "", OkUnit, "")

BackendRest ==
  /\ backend = NoBackend
  /\ host = [paths |-> {}, live |-> {}]
  /\ blast = NoCall
  /\ shut_ok = FALSE

\* one invocation at a time, any number of them
SessionInit == StoreInit(1) /\ BackendRest /\ FileRest /\ BootRest /\ AgentRest /\ CallRest /\ DiskRest /\ GenRest /\ WireRest /\ RootfsRest /\ CliRest /\ ProxyRest /\ FormatRest

SessionSpec == SessionInit /\ [][StoreNext]_vars

\* two invocations that may overlap, MaxCmds invocations in all
RaceInit == StoreInit(2) /\ BackendRest /\ FileRest /\ BootRest /\ AgentRest /\ CallRest /\ DiskRest /\ GenRest /\ WireRest /\ RootfsRest /\ CliRest /\ ProxyRest /\ FormatRest

RaceSpec == RaceInit /\ [][StoreNext]_vars

\* one process and the backend it builds, on a host where any of the mount
\* paths may exist
BackendInit ==
  /\ backend = NoBackend
  /\ host \in {[paths |-> p, live |-> {}] : p \in SUBSET MountPaths}
  /\ blast = NoCall
  /\ shut_ok = FALSE
  /\ StoreRest
  /\ FileRest
  /\ BootRest
  /\ AgentRest /\ CallRest /\ DiskRest /\ GenRest /\ WireRest /\ RootfsRest /\ CliRest /\ ProxyRest /\ FormatRest

BackendSpec == BackendInit /\ [][BackendNext]_vars

\* the configurations whose sandbox keeps its files from one command to the
\* next
PersistentConfigs ==
  {Backend("docker", TRUE, <<>>), Backend("ssh", TRUE, <<>>),
   Backend("ssh", FALSE, <<>>), Backend("firecracker", FALSE, <<>>)}

\* a backend built without failure, in a sandbox that has no file yet
FileInit ==
  /\ \E b \in PersistentConfigs :
       LET r == new(b, [paths |-> {}, live |-> {}],
                    [link |-> TRUE, spawned |-> TRUE, code |-> {0},
                     stdout |-> <<"o", "k", "\n">>])
       IN backend = r.backend /\ host = r.host
  /\ blast = NoCall
  /\ shut_ok = FALSE
  /\ StoreRest
  /\ FileRest
  /\ BootRest
  /\ AgentRest /\ CallRest /\ DiskRest /\ GenRest /\ WireRest /\ RootfsRest /\ CliRest /\ ProxyRest /\ FormatRest

FileSpec == FileInit /\ [][FileNext]_vars

\* one MicroVM, on a host where socket files of an earlier run may be left
VmInit ==
  /\ backend = NoBackend
  /\ host \in {[paths |-> {}, live |-> l] : l \in SUBSET {"api_sock", "vsock_sock"}}
  /\ blast = NoCall
  /\ shut_ok = FALSE
  /\ boot = NoBoot
  /\ StoreRest
  /\ FileRest
  /\ AgentRest /\ CallRest /\ DiskRest /\ GenRest /\ WireRest /\ RootfsRest /\ CliRest /\ ProxyRest /\ FormatRest

VmSpec == VmInit /\ [][VmNext]_vars

\* the same, where a step that can be taken is taken in the end: the
\* constructor and the process that called it run on
VmLiveSpec == VmInit /\ [][VmNext]_vars /\ WF_vars(VmNext)

\* one SSH backend, where the process runs on
SshInit ==
  /\ BackendRest
  /\ StoreRest
  /\ FileRest
  /\ BootRest
  /\ AgentRest /\ CallRest /\ DiskRest /\ GenRest /\ WireRest /\ RootfsRest /\ CliRest /\ ProxyRest /\ FormatRest

SshLiveSpec == SshInit /\ [][SshNext]_vars /\ WF_vars(SshNext)

\* the guest agent in a VM that has no file yet, and its peers
AgentInit ==
  /\ AgentRest /\ CallRest /\ DiskRest /\ GenRest /\ WireRest /\ RootfsRest /\ CliRest /\ ProxyRest /\ FormatRest
  /\ guest = {}
  /\ flast = NoFileCall
  /\ StoreRest
  /\ BackendRest
  /\ BootRest

AgentSpec == AgentInit /\ [][AgentNext]_vars

\* the same, where the agent's thread runs on: it accepts when it can and
\* goes on with the connection it handles when it can
AgentLiveSpec ==
  AgentInit /\ [][AgentNext]_vars /\ WF_vars(Accept) /\ WF_vars(Handle)

\* the factory, in any build and on any platform
FactoryInit ==
  /\ StoreRest /\ BackendRest /\ FileRest /\ BootRest /\ AgentRest /\ DiskRest /\ GenRest /\ WireRest /\ RootfsRest /\ CliRest /\ ProxyRest /\ FormatRest
  /\ \E build \in Builds, on \in Platforms : fact = Factory(build, on, NotCreated)
  /\ elast = NotAsked
  /\ tlast = NotParsed

FactorySpec == FactoryInit /\ [][FactoryNext]_vars

\* the errors of the program, asked whether they are retryable
ErrorInit == StoreRest /\ BackendRest /\ FileRest /\ BootRest /\ AgentRest /\ CallRest /\ DiskRest /\ GenRest /\ WireRest /\ RootfsRest /\ CliRest /\ ProxyRest /\ FormatRest

ErrorSpec == ErrorInit /\ [][ErrorNext]_vars

\* parse_ttl on any text, in a build with or without overflow checks
TtlInit ==
  /\ StoreInit(1) /\ BackendRest /\ FileRest /\ BootRest /\ AgentRest /\ CallRest /\ DiskRest /\ GenRest /\ WireRest /\ RootfsRest /\ CliRest /\ ProxyRest /\ FormatRest

TtlSpec == TtlInit /\ [][TtlNext]_vars

\* the sessions directory under two writing processes and any readers
DiskInit ==
  /\ StoreRest /\ BackendRest /\ FileRest /\ BootRest /\ AgentRest /\ CallRest
  /\ DiskRest /\ GenRest /\ WireRest /\ RootfsRest /\ CliRest /\ ProxyRest /\ FormatRest

DiskSpec == DiskInit /\ [][DiskNext]_vars

\* one process that generates session ids as the milliseconds pass
GenInit ==
  /\ StoreRest /\ BackendRest /\ FileRest /\ BootRest /\ AgentRest /\ CallRest
  /\ DiskRest /\ GenRest /\ WireRest /\ RootfsRest /\ CliRest /\ ProxyRest /\ FormatRest

GenSpec == GenInit /\ [][GenNext]_vars

\* FirecrackerBackend::new after Command::spawn, which removed a stale API
\* socket but not a stale vsock socket, and the callers of the backend
WireInit ==
  /\ ctor = [NoCtor EXCEPT !.pc = "wait_for_socket"]
  /\ socks \in SUBSET {"vsock_path"}
  /\ reqs = <<>>
  /\ lock = Mutex({}, <<>>)
  /\ calls = [c \in Callers |-> Resting]
  /\ rpcs = NoRpcs
  /\ StoreRest /\ BackendRest /\ FileRest /\ BootRest /\ AgentRest /\ CallRest
  /\ DiskRest /\ GenRest /\ RootfsRest /\ CliRest /\ ProxyRest /\ FormatRest

WireSpec == WireInit /\ [][WireNext]_vars

\* the same, where an RPC that holds the lock goes on until it returns
WireLiveSpec ==
  /\ WireInit
  /\ [][WireLiveNext]_vars
  /\ \A c \in Callers :
       /\ WF_vars(\E ok \in BOOLEAN : RpcConnect(c, ok))
       /\ WF_vars(\E io \in LiveIos : RpcExchange(c, io))

\* the backends built over one cache directory
RootfsInit ==
  /\ RootfsRest /\ CliRest /\ ProxyRest /\ FormatRest
  /\ StoreRest /\ BackendRest /\ FileRest /\ BootRest /\ AgentRest /\ CallRest
  /\ DiskRest /\ GenRest /\ WireRest

RootfsSpec == RootfsInit /\ [][RootfsNext]_vars

\* one invocation of create, run, exec or terminate after the other
CliInit ==
  /\ CliRest /\ ProxyRest /\ FormatRest
  /\ StoreRest /\ BackendRest /\ FileRest /\ BootRest /\ AgentRest /\ CallRest /\ DiskRest /\ GenRest /\ WireRest /\ RootfsRest

CliSpec == CliInit /\ [][CliNext]_vars

\* the native tool proxy and the wrapper scripts of two tool invocations
ProxyInit ==
  /\ ProxyRest /\ FormatRest
  /\ StoreRest /\ BackendRest /\ FileRest /\ BootRest /\ AgentRest /\ CallRest /\ DiskRest /\ GenRest /\ WireRest /\ RootfsRest /\ CliRest

ProxySpec == ProxyInit /\ [][ProxyNext]_vars

\* format_base36 on any argument up to MaxArg
FormatInit ==
  /\ FormatRest
  /\ StoreRest /\ BackendRest /\ FileRest /\ BootRest /\ AgentRest /\ CallRest /\ DiskRest /\ GenRest /\ WireRest /\ RootfsRest /\ CliRest /\ ProxyRest

FormatSpec == FormatInit /\ [][FormatNext]_vars

----------------------------------------------------------------------------
(* Properties of the session store *)

\* expiry as the specification defines it, over the mathematical integers
MathExpired(s, t) ==
  /\ s.ttl_seconds # {}
  /\ t > s.last_activity + TheOne(s.ttl_seconds)

\* the stored records that the identifier `key` may denote
Denoted(fs, key) == { i \in DOMAIN fs : i = key \/ fs[i].name = {key} }

\* the steps that call SessionManager::get
GetOps == {"create_get", "run_get", "touch_get"}

\* C1: SessionManager::get never returns Ok with an expired record.  A get
\* that returns Ok returns a stored record that the identifier denotes and
\* that is not expired, and leaves the directory alone.  A get whose
\* identifier is the id of an expired record, or the name of expired records
\* only, returns SessionExpired carrying that identifier, and the file of
\* the record is gone afterwards; SessionExpired always carries the caller's
\* identifier and takes exactly one denoted file away.
C1_GetStep ==
  slast'.op \in GetOps =>
    LET r == slast'.res
        key == slast'.key
        hits == Denoted(files, key)
        gone == (DOMAIN files) \ (DOMAIN files')
    IN /\ r.kind = "Ok" =>
            /\ files' = files
            /\ \A s \in r.val :
                 /\ ~MathExpired(s, now)
                 /\ s.id \in hits
                 /\ files[s.id] = s
       /\ r.kind = "SessionExpired" =>
            /\ r.id = key
            /\ \E i \in hits : gone = {i} /\ files' = Remove(files, i)
       /\ (key \in DOMAIN files /\ MathExpired(files[key], now)) =>
            /\ r.kind = "SessionExpired"
            /\ gone = {key}
       /\ (/\ key \notin DOMAIN files
           /\ hits # {}
           /\ \A i \in hits : MathExpired(files[i], now)) =>
            /\ r.kind = "SessionExpired"
            /\ \E i \in hits : gone = {i}

C1_GetNeverReturnsExpired == [][C1_GetStep]_vars

\* C1 witness: a lookup by name has just found an expired record, reported
\* SessionExpired for the name and removed the file
C1_Witness ==
  /\ slast.op \in GetOps
  /\ slast.res.kind = "SessionExpired"
  /\ slast.key = "n1"
  /\ slast.res.id = "n1"
  /\ Denoted(files, "n1") = {}
  /\ now > 0

\* C2: Session::is_expired is true exactly when ttl_seconds is set and the
\* current time is strictly greater than last_activity + ttl_seconds; here
\* for every record the store holds
C2_IsExpiredExact ==
  \A i \in DOMAIN files :
    is_expired(files[i], now) = IF MathExpired(files[i], now) THEN "true" ELSE "false"

\* C3: at most one non-expired stored session carries any given name
C3_NameUnique ==
  \A i, j \in DOMAIN files :
    (/\ i # j
     /\ files[i].name # {}
     /\ files[i].name = files[j].name)
    => (MathExpired(files[i], now) \/ MathExpired(files[j], now))

\* C4: a stored record that is not expired is what get returns for its id
\* and for its name, in whatever order the directory is read
C4_GetReturnsSaved ==
  \A i \in DOMAIN files :
    ~MathExpired(files[i], now) =>
      \A order \in DirOrders(files) :
        /\ get(files, i, order, now).res = Ok(files[i])
        /\ \A n \in files[i].name :
             get(files, n, order, now).res = Ok(files[i])

\* the stored records that are expired at time t
ExpiredIds(fs, t) == { i \in DOMAIN fs : MathExpired(fs[i], t) }

\* C21: cleanup_expired deletes exactly the stored sessions that are
\* expired at the time of the call and returns the number it deleted; every
\* other session is still stored and unchanged, so a following list holds no
\* expired record; here for every state of the store and every order in
\* which the directory may be read
C21_CleanupDeletesExactlyExpired ==
  \A order \in DirOrders(files) :
    LET c == cleanup_expired(files, order, now)
        kept == (DOMAIN files) \ ExpiredIds(files, now)
    IN /\ c.res = Ok(Cardinality(ExpiredIds(files, now)))
       /\ c.files = [i \in kept |-> files[i]]
       /\ \A order2 \in DirOrders(c.files) :
            LET sessions == list(c.files, order2) IN
            \A k \in 1..Len(sessions) : ~MathExpired(sessions[k], now)

\* the files of the directory that hold a whole record
Parseable(d) == { i \in DOMAIN d : parses(d[i]) }

\* C22: list returns every parseable record of the sessions directory,
\* expired ones included, each once, ordered by created_at descending, and
\* deletes nothing; a file that does not parse is skipped and neither makes
\* list fail nor hides the other records
C22_ListStep ==
  dlast'.op = "list" =>
    LET sessions == dlast'.sessions IN
    /\ dlast'.res.kind = "Ok"
    /\ disk' = disk
    /\ Len(sessions) = Cardinality(Parseable(disk))
    /\ \A i \in Parseable(disk) : \E k \in 1..Len(sessions) : sessions[k] = parsed(disk[i])
    /\ \A j, k \in 1..Len(sessions) :
         j < k => sessions[j].created_at >= sessions[k].created_at

C23_ReadStep ==
  /\ dlast'.op = "get" => dlast'.res.kind # "Json"
  /\ dlast'.op = "list" =>
       \A i \in DOMAIN disk : \E k \in 1..Len(dlast'.sessions) : dlast'.sessions[k].id = i

C23_SaveIsAtomicForReaders == [][C23_ReadStep]_vars

\* C24: under any interleaving of concurrent writers to one session id,
\* each touch reading the record, taking the time and writing the record
\* back, the stored last_activity of the id never decreases
C24_WriteStep ==
  \A p \in DOMAIN procs :
    (procs[p].pc = "touch_save" /\ procs'[p].pc = "idle") =>
      \A i \in (DOMAIN files) \cap (DOMAIN files') :
        \* the same session before and after, not a new one under the id
        files'[i].created_at = files[i].created_at =>
          files'[i].last_activity >= files[i].last_activity

C24_LastActivityNeverDecreases == [][C24_WriteStep]_vars

\* C25: any two session ids generated within one process are distinct
C25_GeneratedIdsDistinct ==
  \A j, k \in 1..Len(gen.ids) : j # k => gen.ids[j] # gen.ids[k]

----------------------------------------------------------------------------
(* Properties of the backends *)

\* the functions that run a command for execute
ExecOps ==
  {"WasmerBackend::execute", "DockerBackend::execute_in_session",
   "DockerBackend::execute_stateless", "SshBackend::execute_ssh",
   "VsockClient::execute"}

\* the functions that check the mounts before they spawn anything
MountOps ==
  {"WasmerBackend::execute", "DockerBackend::execute_stateless",
   "DockerBackend::start_session"}

\* the latest call checked its mounts and one of them does not exist
MountFails == blast.op \in MountOps /\ Missing(blast.mounts, host.paths) # {}

\* C5: execute returns Ok(CommandResult) with the command's exit code
\* whenever the command ran to completion, zero or not; it returns Err only
\* when the process could not be spawned, the transport failed, or a
\* configured mount is missing
C5_ExecuteReturnsExitCode ==
  blast.op \in ExecOps =>
    /\ (/\ blast.out.link
        /\ blast.out.spawned
        /\ blast.out.code # {}
        /\ ~MountFails)
       => blast.res = Ok(CommandResult(TheOne(blast.out.code), blast.out.stdout))
    /\ blast.res.kind # "Ok" =>
         \/ ~blast.out.link /\ blast.res.kind = "VMCommunication"
         \/ blast.out.link /\ ~blast.out.spawned /\ ~MountFails
              /\ blast.res.kind = "SandboxExecution"
         \/ MountFails /\ blast.res.kind = "MountPathNotFound"

\* C5 witness: a command that exited with a non-zero code came back as Ok
C5_Witness ==
  /\ blast.op \in ExecOps
  /\ blast.out.code = {137}
  /\ blast.res.kind = "Ok"
  /\ \A r \in blast.res.val : r.exit_code = 137

\* C6: when a configured mount's host_path does not exist, the WASM
\* execute, the container's stateless execute and its session start fail
\* with MountPathNotFound naming the first such mount of the list, and
\* spawn nothing
C6_MissingMountFailsFirst ==
  MountFails =>
    /\ blast.res.kind = "MountPathNotFound"
    /\ \E k \in 1..Len(blast.mounts) :
         /\ blast.mounts[k] \notin host.paths
         /\ \A j \in 1..(k - 1) : blast.mounts[j] \in host.paths
         /\ blast.res.id = blast.mounts[k]
    /\ blast.acts = <<>>

\* C6 witness: a session start with two mounts, the second and then the
\* first of the host's paths, both missing, has named the first of the list
C6_Witness ==
  /\ blast.op = "DockerBackend::start_session"
  /\ blast.mounts = <<"m2", "m1">>
  /\ host.paths = {}
  /\ blast.res = Err("MountPathNotFound", "m2")
  /\ blast.acts = <<>>

\* C7: health_check returns true exactly when execute("echo ok") returned a
\* result with exit code 0, and false otherwise; nothing else counts
C7_HealthCheckIsExitCode ==
  blast.op = "health_check" =>
    blast.res = Ok(/\ blast.exec.kind = "Ok"
                   /\ \A r \in blast.exec.val : r.exit_code = 0)

C10_NoStatusIsMinusOne ==
  (blast.op \in ExecOps /\ blast.res.kind = "Ok") =>
    \A r \in blast.res.val :
      r.exit_code = IF blast.out.code = {} THEN -1 ELSE TheOne(blast.out.code)

----------------------------------------------------------------------------
(* Properties of the files *)

\* C9: read_file after a write_file that returned Ok returns exactly the
\* content that was written
C9_ReadReturnsWritten ==
  (flast.op = "read_file" /\ flast.up /\ flast.wrote # {}) =>
    flast.res = Ok(TheOne(flast.wrote))

----------------------------------------------------------------------------
(* Properties of the container session *)

\* the functions that run a command for DockerBackend::execute
DockerExecOps ==
  {"DockerBackend::execute_in_session", "DockerBackend::execute_stateless"}

\* C11: container_id holds at most one id
C11_AtMostOneContainerId == Cardinality(backend.container_id) <= 1

\* C11: execute of the container backend issues `docker exec` exactly when a
\* container id is stored when it reads it; otherwise it issues a one-shot
\* `docker run --rm`, or nothing when a mount is missing
C11_ExecStep ==
  blast'.op \in DockerExecOps =>
    /\ backend.container_id # {} <=> blast'.acts = <<"docker exec">>
    /\ backend.container_id = {} =>
         \/ blast'.acts = <<"docker run --rm">>
         \/ /\ blast'.acts = <<>>
            /\ Missing(backend.mounts, host.paths) # {}

\* C11: a container backend holds at most one container id, and execute uses
\* `exec` if and only if an id is stored, else `run --rm`, in every state,
\* also after shutdown has cleared the id of a session-mode backend
C11_ExecIffContainerId ==
  [](C11_AtMostOneContainerId) /\ [][C11_ExecStep]_vars

\* C11 witness: a session-mode backend whose shutdown cleared the id has run
\* a command with a one-shot `docker run --rm`
C11_Witness ==
  /\ backend.kind = "docker"
  /\ backend.mode
  /\ shut_ok
  /\ backend.container_id = {}
  /\ blast.op = "DockerBackend::execute_stateless"
  /\ blast.acts = <<"docker run --rm">>

----------------------------------------------------------------------------
(* Properties of the MicroVM *)

\* what a MicroVM instance holds on the host besides its rootfs copy
VmResources == {"vm", "api_sock", "vsock_sock"}

\* the steps of FirecrackerBackend::new that fail while it holds a
\* FirecrackerVM, which is dropped then
DropsVm ==
  {"FirecrackerVM::configure", "FirecrackerVM::start",
   "FirecrackerVM::wait_for_boot", "VsockClient::connect"}

\* the latest step ended the life of a FirecrackerVM: shutdown, drop of the
\* backend, or an error of the constructor that held one
VmEnded ==
  \/ blast.op \in {"shutdown", "drop"}
  \/ blast.op \in DropsVm /\ blast.res.kind # "Ok"

\* C12: when the API socket does not appear within the attempt budget the
\* constructor fails with VMBootFailed and the hypervisor process that was
\* spawned is not running any more when the failure is returned
C12_SocketTimeoutKillsHypervisor ==
  (blast.op = "FirecrackerVM::wait_for_socket" /\ blast.res.kind # "Ok") =>
    /\ blast.res.kind = "VMBootFailed"
    /\ "kill" \in {blast.acts[k] : k \in 1..Len(blast.acts)}
    /\ "vm" \notin host.live

InstanceExited ==
  \/ boot.pc = "failed"
  \/ blast.op = "shutdown" /\ blast.res.kind = "Ok"
  \/ blast.op = "drop"

\* C14: on every exit path of a MicroVM instance its rootfs copy is
\* eventually removed
C14_RootfsCopyEventuallyRemoved ==
  InstanceExited ~> ("rootfs" \notin host.live)

----------------------------------------------------------------------------
(* Properties of the SSH backend *)

\* the ControlMaster connection and its socket file
SshResources == {"master", "control_sock"}

\* the life of the SSH backend is over: the constructor returned Err after
\* it ran `ssh -M`, or the backend was shut down or dropped
SshExited ==
  \/ blast.op = "SshBackend::start_control_master" /\ blast.res.kind # "Ok"
  \/ blast.op = "shutdown" /\ blast.res.kind = "Ok"
  \/ blast.op = "drop"

\* C15: on every exit path of the SSH backend the ControlMaster connection
\* and its control socket are eventually released
C15_ControlSocketEventuallyReleased ==
  SshExited ~> (host.live \cap SshResources = {})

----------------------------------------------------------------------------
(* Properties of the guest agent *)

\* the request lines that decode as a request
WellFormed ==
  {Frame("P", <<>>), Frame("R", <<>>)}
    \cup {Frame("W", json_string(content)) : content \in Contents}

\* the text s holds the text sub
contains(s, sub) ==
  \E k \in 0..(Len(s) - Len(sub)) : SubSeq(s, k + 1, k + Len(sub)) = sub

\* the types of response that answer a request line
Answering(line) ==
  IF line \notin WellFormed THEN {"e"}
  ELSE IF Head(line) = "P" THEN {"p"}
  ELSE IF Head(line) = "W" THEN {"w", "e"}
  ELSE {"r", "e"}

\* C16: on one connection the agent writes one response line for each
\* request line, in request order; a line that is no valid request gets an
\* error response that holds "Invalid request"; and the agent keeps the
\* connection until the peer closes it
C16_OneResponsePerRequestLine ==
  \A c \in Conns :
    LET k == conns[c] IN
    /\ Len(k.answers) + Len(k.inbox) = Len(k.sent)
    /\ \A j \in 1..Len(k.answers) :
         /\ Head(k.answers[j]) \in Answering(k.sent[j])
         /\ k.sent[j] \notin WellFormed => contains(k.answers[j], InvalidRequest)
    /\ k.dropped => k.eof

\* C17: a request line written on a connection is eventually read and
\* answered, whatever the peers of the other connections do or fail to do
C17_EveryConnectionIsServed ==
  \A c \in Conns : (conns[c].inbox # <<>>) ~> (conns[c].inbox = <<>>)

----------------------------------------------------------------------------
(* Properties of the backend factory *)

\* C18: with backend auto the factory selects the MicroVM backend if it is
\* available, else the container backend if it is available, else the WASM
\* backend if it is available, and fails with BackendNotAvailable for "auto"
\* only when none is; the three availability probes alone decide
C18_AutoSelectsFirstAvailable ==
  fact.last.requested = {"Auto"} =>
    \A on \in fact.last.on :
      LET probes == available_backends(fact.build, on) IN
      fact.last.res =
        IF probes.firecracker THEN Ok("Firecracker")
        ELSE IF probes.docker THEN Ok("Docker")
        ELSE IF probes.wasmer THEN Ok("Wasmer")
        ELSE Err("BackendNotAvailable", "auto")

\* auto has selected the MicroVM backend on a platform where the container
\* and the WASM backends are available too
C18_Witness ==
  /\ fact.last.requested = {"Auto"}
  /\ fact.last.res = Ok("Firecracker")
  /\ \A on \in fact.last.on : on.docker
  /\ fact.build.wasmer

----------------------------------------------------------------------------
(* Properties of the error kinds *)

\* the closed set of error kinds, by the names of the enum's variants
ClosedSet ==
  {"Config", "BackendNotAvailable", "SandboxInit", "SandboxExecution",
   "SandboxTimeout", "MountPathNotFound", "WasmNotFound", "FirecrackerApi",
   "VMBootFailed", "VMCommunication", "AssetDownload", "SessionNotFound",
   "SessionExpired", "SessionNameExists", "Io", "Json", "TomlParse"}

\* C19: of the closed set of error kinds, the retryability flag is true for
\* SandboxTimeout, VMCommunication and AssetDownload and false for every
\* other kind
C19_RetryableKinds ==
  \A err \in elast.err :
    err.kind \in ClosedSet =>
      (elast.retryable <=>
         err.kind \in {"SandboxTimeout", "VMCommunication", "AssetDownload"})

----------------------------------------------------------------------------
(* Properties of parse_ttl *)

\* a decimal: one digit or more
IsDecimal(s) == s # <<>> /\ \A k \in 1..Len(s) : s[k] \in Digits

\* the seconds in one unit of a suffix
UnitSeconds(c) ==
  CASE c = "s" -> 1 [] c = "m" -> 60 [] c = "h" -> 3600 [] c = "d" -> 86400

\* C20: parse_ttl, after trimming whitespace and lowercasing, returns N for
\* a decimal N with suffix s or with no suffix, N*60 for suffix m, N*3600
\* for h and N*86400 for d, and a Config error for the empty text and for
\* every other input
C20_ParseTtl ==
  \A text \in tlast.text :
    LET s == to_lowercase(trim(text))
        body == SubSeq(s, 1, Len(s) - 1)
    IN IF IsDecimal(s) THEN tlast.res = Ok(decimal(s))
       ELSE IF s # <<>> /\ s[Len(s)] \in {"s", "m", "h", "d"} /\ IsDecimal(body)
       THEN tlast.res = Ok(decimal(body) * UnitSeconds(s[Len(s)]))
       ELSE tlast.res = Err("Config", "")

----------------------------------------------------------------------------
(* Properties of the MicroVM on the wire *)

\* the control requests in the order the hypervisor must get them
ControlOrder ==
  <<"/boot-source", "/machine-config", "/drives/rootfs", "/vsock", "/actions">>

\* the hypervisor answered with a status from 200 to 299
Replied2xx(r) == r.reply # {} /\ \A s \in r.reply : 200 <= s /\ s <= 299

\* C26: the control requests reach the hypervisor in the order PUT
\* /boot-source, /machine-config, /drives/rootfs, /vsock, /actions
\* InstanceStart, each only after the one before it was answered 2xx; a
\* reply that is not 2xx makes the constructor fail with the hypervisor API
\* error, and no request follows it; no guest RPC is issued before
\* wait_for_boot, after InstanceStart, has found the vsock socket
C26_ControlRequestsInOrder ==
  /\ Len(reqs) <= Len(ControlOrder)
  /\ \A k \in 1..Len(reqs) :
       /\ reqs[k].method = "PUT"
       /\ reqs[k].path = ControlOrder[k]
       /\ reqs[k].path = "/actions" => reqs[k].body = "InstanceStart"
       /\ k < Len(reqs) => Replied2xx(reqs[k])
       /\ ~Replied2xx(reqs[k]) =>
            /\ ctor.pc = "failed"
            /\ ctor.res.kind = "FirecrackerApi"
            /\ ctor.res.val = reqs[k].reply
  /\ ctor.seen =>
       /\ Len(reqs) = Len(ControlOrder)
       /\ Replied2xx(reqs[Len(reqs)])
  /\ (rpcs.asked # <<>> \/ \E c \in Callers : calls[c].pc # "idle") => ctor.seen

\* a guest RPC has been issued, after all five requests
C26_Witness ==
  /\ rpcs.asked # <<>>
  /\ Len(reqs) = Len(ControlOrder)

\* the file a wait loop looks for
Awaited(loop) == IF loop = "wait_for_socket" THEN "socket_path" ELSE "vsock_path"

\* the attempt budget of a wait loop
Budget(loop) == IF loop = "wait_for_socket" THEN 50 ELSE 100

C27_Turn ==
  LET loop == ctor.pc IN
  (loop \in {"wait_for_socket", "wait_for_boot"} /\ ctor' # ctor) =>
    /\ ctor.checks < Budget(loop)
    /\ IF Awaited(loop) \in socks
       THEN ctor'.pc \notin {loop, "failed"}
       ELSE /\ ctor'.checks = ctor.checks + 1
            /\ ctor'.slept = ctor.slept + 100
            /\ IF ctor'.checks = Budget(loop)
               THEN ctor'.pc = "failed" /\ ctor'.res.kind = "VMBootFailed"
               ELSE ctor'.pc = loop

\* C27: the API-socket wait makes at most 50 existence checks and the boot
\* wait at most 100, with a sleep of 100 ms after each check that finds
\* nothing; a loop returns Ok at the first check that finds the socket
\* file, and VMBootFailed when the last check of its budget finds nothing
C27_WaitLoopsKeepTheirBudget == [][C27_Turn]_vars

\* the boot wait has used up its budget
C27_Witness ==
  /\ ctor.pc = "failed"
  /\ ctor.res.kind = "VMBootFailed"
  /\ ctor.checks = 100
  /\ Len(reqs) = Len(ControlOrder)

\* the callers whose RPC is in flight: they hold the lock and have not
\* returned
InFlight == {c \in Callers : calls[c].pc \in {"locked", "connected"}}

\* s is the beginning of t
IsPrefix(s, t) == Len(s) <= Len(t) /\ \A k \in 1..Len(s) : s[k] = t[k]

C28_OneAtATimeInOrder ==
  /\ Cardinality(InFlight) <= 1
  /\ \A c \in Callers : calls[c].stream # {} => c \in InFlight
  /\ IsPrefix(rpcs.served, rpcs.asked)

\* C28: at most one guest RPC of a backend is in flight at any time, the
\* callers get the lock in the order in which they asked for it, and a
\* caller that waits gets it in the end when the RPCs before it return
C28_RpcsAreSerializedFifo ==
  /\ []C28_OneAtATimeInOrder
  /\ \A c \in Callers : (calls[c].pc = "waiting") ~> (calls[c].pc = "locked")

\* one RPC is in flight and two callers wait behind it
C28_Witness ==
  /\ InFlight # {}
  /\ Len(lock.waiters) = 2

\* the responses of the guest protocol and the fields each carries
ResponseFields ==
  [execute |-> {"exit_code", "stdout", "stderr"}, read_file |-> {"content"},
   write_file |-> {"success"}, pong |-> {}, error |-> {"message"}]

\* the reply line is a well-formed response of the protocol
WellFormedLine(line) ==
  /\ line.json
  /\ "type" \in DOMAIN line.obj
  /\ line.obj.type \in DOMAIN ResponseFields
  /\ ResponseFields[line.obj.type] \subseteq DOMAIN line.obj

\* the response type that answers the request of a method
Matching(method) == IF method = "list_dir" THEN "execute" ELSE method

\* every stream belongs to one call in flight, no two calls share one, and
\* the streams of the calls that returned are closed
OwnConnections ==
  /\ \A c \in Callers : calls[c].pc = "connected" <=> calls[c].stream # {}
  /\ \A c, d \in Callers : c # d => calls[c].stream \cap calls[d].stream = {}
  /\ rpcs.opened - rpcs.closed = Cardinality({c \in Callers : calls[c].stream # {}})

\* what a call that returned must have returned: the kind of its result.
\* refused: a write_file response that reports no success counts as a
\* failure of the execution
Due(l, refused) ==
  IF ~l.connected \/ l.io.failed # "" \/ ~WellFormedLine(l.io.line)
  THEN "VMCommunication"
  ELSE LET response == l.io.line.obj IN
       IF response.type = Matching(l.method)
       THEN IF refused /\ response.type = "write_file" /\ ~response.success
            THEN "SandboxExecution"
            ELSE "Ok"
       ELSE IF response.type = "error" THEN "SandboxExecution"
       ELSE "VMCommunication"

\* C29 as stated: every RPC has a connection of its own, closed when the
\* call ends; a response of the type that matches the request yields
\* success, an error response a SandboxExecution failure, and any other
\* well-formed response, a reply line that is empty or does not parse, and
\* a failure to connect, write or read a VMCommunication failure
C29_MatchingTypeYieldsSuccess ==
  /\ OwnConnections
  /\ \A l \in rpcs.last : l.res.kind = Due(l, FALSE)

\* C29, amended: the same, except that a write_file response whose success
\* is false yields a SandboxExecution failure
C29_ResponsesAreClassified ==
  /\ OwnConnections
  /\ \A l \in rpcs.last : l.res.kind = Due(l, TRUE)

\* write_file was answered by a write_file response without success
C29_Witness ==
  \E l \in rpcs.last :
    /\ l.method = "write_file"
    /\ l.connected
    /\ l.io.failed = ""
    /\ WellFormedLine(l.io.line)
    /\ l.io.line.obj.type = "write_file"
    /\ ~l.io.line.obj.success
    /\ l.res.kind = "SandboxExecution"

----------------------------------------------------------------------------
(* Properties of the root drive *)

\* <cache>/instances/<id>.rootfs.ext4
InstancePath(id) ==
  <<<<"cache">>, <<"firecracker">>, <<"instances">>, id \o <<".rootfs.ext4">>>>

\* the shared cached image
SharedImage == <<<<"cache">>, <<"firecracker">>, <<"rootfs.ext4">>>>

\* the instances whose VM has a root drive
Driven == {i \in Instances : insts[i].drive # {}}

\* the root drive of every VM is <cache>/instances/<id>.rootfs.ext4 of its
\* instance, made by a reflink clone or a full copy, and the shared image
\* is the drive of no VM
DriveIsInstancePath ==
  /\ \A i \in Driven :
       /\ insts[i].drive = {InstancePath(insts[i].instance_id)}
       /\ insts[i].drive # {SharedImage}
       /\ insts[i].how \in {"reflink", "copy"}
       /\ i \in images[InstancePath(insts[i].instance_id)].copied_for
  /\ images[SharedImage].written_by = {}

\* C30: the writable root drive of a VM is the copy of its own instance at
\* <cache>/instances/<id>.rootfs.ext4, made by a reflink clone or else by
\* a full copy, and never the shared cached image: no file is the writable
\* drive of more than one instance
C30_RootDriveIsOwnCopy ==
  /\ DriveIsInstancePath
  /\ \A p \in Images : Cardinality(images[p].written_by) <= 1

----------------------------------------------------------------------------
(* Properties of the control socket of the remote backend *)

\* a control path is stored by a backend with use_control_master only, and
\* by such a backend as long as no shutdown has returned Ok
ControlPathStored ==
  backend.kind = "ssh" =>
    /\ ~backend.mode => backend.control_path = {}
    /\ (backend.mode /\ backend.control_path = {}) => shut_ok

\* shutdown of a backend that stores a control path ran
ClosedControlMaster ==
  /\ backend.kind = "ssh" /\ backend.mode /\ backend.control_path # {}
  /\ blast'.op = "shutdown"

\* C31: a remote backend with use_control_master stores a control path
\* exactly from the successful start of the master connection until
\* shutdown, which issues ssh -O exit on that socket, leaves no socket
\* file, clears the stored path and sets connected to false, also when the
\* exit command fails; a backend without use_control_master never stores a
\* control path
C31_ControlPathHeldUntilShutdown ==
  /\ []ControlPathStored
  /\ [][ClosedControlMaster =>
          /\ Head(blast'.acts) = "ssh -O exit"
          /\ backend'.control_path = {}
          /\ ~backend'.connected
          /\ "control_sock" \notin host'.live]_vars

----------------------------------------------------------------------------
(* Properties of SessionManager::touch *)

\* process p leaves the lookup of touch with the session found
TouchFound(p) == procs[p].pc = "touch_get" /\ procs'[p].pc = "touch_save"

\* process p leaves the lookup of touch with an error
TouchFailed(p) == procs[p].pc = "touch_get" /\ procs'[p].pc = "idle"

\* process p leaves the save of touch
TouchSaved(p) == procs[p].pc = "touch_save" /\ procs'[p].pc = "idle"

\* b is a except for last_activity, which is t
OnlyLastActivity(a, b, t) ==
  /\ b.id = a.id
  /\ b.name = a.name
  /\ b.cfg = a.cfg
  /\ b.created_at = a.created_at
  /\ b.ttl_seconds = a.ttl_seconds
  /\ b.last_activity = t

\* no record is written: every record of the directory was there before
NoRecordWritten ==
  \A i \in DOMAIN files' : i \in DOMAIN files /\ files'[i] = files[i]

\* C32: a successful touch changes only last_activity of the stored record,
\* to the time at which Session::touch ran: id, name, mounts, env, workdir,
\* wasm_binary, created_at and ttl stay as they were, and so does every
\* other record; when the lookup fails with SessionNotFound or
\* SessionExpired, touch returns that error and writes no record
C32_TouchChangesOnlyLastActivity ==
  [][\A p \in DOMAIN procs :
       /\ TouchFound(p) =>
            LET r == TheOne(slast'.res.val)
                h == TheOne(procs'[p].held)
            IN /\ r.id \in DOMAIN files /\ files[r.id] = r
               /\ OnlyLastActivity(r, h, now)
               /\ files' = files
       /\ TouchSaved(p) =>
            LET h == TheOne(procs[p].held) IN
            /\ h.id \in DOMAIN files
            /\ DOMAIN files' = DOMAIN files
            /\ OnlyLastActivity(files[h.id], files'[h.id], h.last_activity)
            /\ \A i \in DOMAIN files : i # h.id => files'[i] = files[i]
       /\ (TouchFailed(p) /\ slast'.res.kind \in {"SessionNotFound", "SessionExpired"}) =>
            /\ slast'.out = slast'.res.kind
            /\ NoRecordWritten]_vars

\* a touch moved last_activity of a record past its created_at
C32_Witness ==
  /\ slast.op = "save"
  /\ \E i \in DOMAIN files : files[i].last_activity > files[i].created_at

\* a touch failed with SessionExpired
C32_WitnessExpired ==
  /\ slast.op = "touch_get"
  /\ slast.out = "SessionExpired"

\* C33: once delete or cleanup_expired of a session has completed, the
\* session is not stored again: the save of a touch that looked the record
\* up before the delete finds the record still in the directory, so that
\* no touch brings a deleted record back for a later get or list
C33_DeletedSessionStaysDeleted ==
  [][\A p \in DOMAIN procs :
       TouchSaved(p) => TheOne(procs[p].held).id \in DOMAIN files]_vars

----------------------------------------------------------------------------
(* Properties of the commands and their backend *)

\* C34: a session record created with a preset is stored only after the
\* backend was created and every setup command of the preset ran with exit
\* code 0, for create and for run --create alike, so that no run executes
\* its command in a session whose setup commands did not complete
C34_PresetSessionStoredAfterSetup ==
  /\ \A s \in DOMAIN recs :
       recs[s].preset => recs[s].backend /\ recs[s].setup_left = 0
  /\ (cli.cmd = "run" /\ cli.ran /\ cli.session \subseteq DOMAIN recs) =>
       \A s \in cli.session : recs[s].setup_left = 0

\* the same for the create command alone
CreateStoresAfterSetup ==
  [][cli.pc = "save" =>
       \A s \in cli.session :
         s \in DOMAIN recs' /\ recs'[s].backend /\ recs'[s].setup_left = 0]_vars

\* the calls made on the backend of the invocation
OnBackend == {cli.backend[k] : k \in 1..Len(cli.backend)}

\* C35: every backend that exec, run or create constructed has had its
\* shutdown invoked when the command returns or the process exits: on the
\* success path, when a setup command or the user command fails, and when
\* the non-zero exit code of the command makes the CLI exit the process
C35_BackendShutDownBeforeCommandEnds ==
  (cli.pc = "done" /\ cli.backend # <<>>) => "shutdown" \in OnBackend

----------------------------------------------------------------------------
(* Properties of SandboxBackend::info *)

\* the backends that hold an instance between commands: the container of
\* session_mode, the master connection, the MicroVM
Stateful(b) ==
  \/ b.kind = "docker" /\ b.mode
  \/ b.kind = "ssh" /\ b.mode
  \/ b.kind = "firecracker"

\* running is true from construction until a shutdown has returned Ok
RunningUntilShutdown(b) == info(b).running <=> ~shut_ok

\* C36: for every stateful backend info().running is true only while the
\* instance can accept commands: true after successful construction, false
\* once shutdown has completed
C36_RunningOnlyWhileUsable ==
  (backend.kind # "none" /\ Stateful(backend)) => RunningUntilShutdown(backend)

\* the same without the MicroVM
RunningOfContainerAndRemote ==
  (backend.kind \in {"docker", "ssh"} /\ Stateful(backend)) =>
    RunningUntilShutdown(backend)

----------------------------------------------------------------------------
(* Properties of the TTL arithmetic *)

\* the number N that an accepted text denotes, and the seconds in its unit
TtlNumber(s) == decimal(SelectSeq(s, LAMBDA c : c \in Digits))
TtlMultiplier(s) ==
  IF s # <<>> /\ s[Len(s)] \in {"s", "m", "h", "d"} THEN UnitSeconds(s[Len(s)]) ELSE 1

\* what parse_ttl returns is N times the multiplier, as integers
ProductIsExact ==
  \A text \in tlast.text :
    tlast.res.kind = "Ok" =>
      LET s == to_lowercase(trim(text)) IN
      TheOne(tlast.res.val) = TtlNumber(s) * TtlMultiplier(s)

\* no stored session is reported expired before last_activity + ttl_seconds,
\* as integers, has passed
NeverExpiredEarly ==
  \A i \in DOMAIN files :
    is_expired(files[i], now) = "true" => MathExpired(files[i], now)

\* C37: TTL arithmetic does not wrap around in u64: what parse_ttl returns
\* for a text it accepts is N times the unit multiplier as mathematical
\* integers, and is_expired compares now with last_activity + ttl_seconds
\* as mathematical integers, so that a session with a very large TTL is
\* never reported expired early
C37_TtlArithmeticNeverWraps == ProductIsExact /\ NeverExpiredEarly

----------------------------------------------------------------------------
(* Properties of the native tool proxy *)

\* C38: the proxy executes each request file at most once: once it has
\* written the response of a request, no later poll of the requests
\* directory runs the tool of that request again or writes its response
\* again before the wrapper script has removed the request file
C38_RequestExecutedAtMostOnce ==
  \A r \in RequestIds : tool_runs[r] <= 1 /\ responses[r] <= 1

----------------------------------------------------------------------------
(* Properties of format_base36 *)

\* the value of a digit 0-9a-z
DigitValue(c) == CHOOSE v \in 0..35 : CHARS[v + 1] = c

\* the number a base-36 numeral denotes
RECURSIVE from_base36(_)
from_base36(s) ==
  IF s = <<>> THEN 0
  ELSE 36 * from_base36(SubSeq(s, 1, Len(s) - 1)) + DigitValue(s[Len(s)])

\* C39: format_base36 returns the canonical base-36 numeral of its argument
\* over the digits 0-9a-z: "0" for 0, no leading zero for any other value,
\* and a string that no other argument has and that denotes the argument
\* when read as base 36; 10 gives "a", 35 gives "z" and 36 gives "10"
C39_FormatBase36IsCanonical ==
  \A n \in formatted.n :
    LET text == formatted.text IN
    /\ text # <<>>
    /\ \A k \in 1..Len(text) : \E v \in 0..35 : CHARS[v + 1] = text[k]
    /\ n = 0 => text = <<"0">>
    /\ n # 0 => Head(text) # "0"
    /\ from_base36(text) = n
    /\ \A m \in 0..MaxArg : format_base36(m) = text => m = n
    /\ n = 10 => text = <<"a">>
    /\ n = 35 => text = <<"z">>
    /\ n = 36 => text = <<"1", "0">>

\* 36 was formatted as "10"
C39_Witness == formatted = Formatted({36}, <<"1", "0">>)

====
